---- MODULE Spec2Model ----
(***************************************************************************)
(* showads-connector: the validation pipeline (pipeline.py) driving the    *)
(* delivery engine (showads/client.py) with its token manager              *)
(* (showads/auth.py) and error taxonomy (showads/errors.py), specification *)
(* Spec; the backoff delays of the retry loop, SpecBackoff; the            *)
(* classification of exchanges, SpecTaxonomy; and the live-reloading age   *)
(* bounds (config.py), SpecConfig.                                         *)
(*                                                                         *)
(* Text is modelled as a sequence of characters, each character a          *)
(* one-token string.  An optional value (Python's None or a value) is a    *)
(* sequence of length 0 or 1.                                              *)
(***************************************************************************)
EXTENDS Integers, Sequences, FiniteSets, TLC

\* ------------------------------------------------------------------ bounds

\* rows the row source yields at most
MaxRows == 2
\* largest requested batch size / client cap tried (0 is tried as well)
MaxBatchSize == 2
\* largest retry budget tried (0 is tried as well)
MaxRetriesBound == 1
\* the wall clock and the monotonic clock run from 0 to MaxTime; the poll
\* interval is tried from 0 to MaxTime
MaxTime == 1
\* modification times a configuration file is given: 1..MaxMtime
MaxMtime == 2
\* backoff_base_s and backoff_cap_s are tried from 0 to MaxBackoff seconds
MaxBackoff == 3
\* largest retry budget tried for the backoff delays, so that the delay doubles
MaxBackoffRetries == 2
\* random.random() is drawn from k / JitterSteps, k in 0..JitterSteps-1
JitterSteps == 4
\* status codes classified: 0..MaxStatus
MaxStatus == 600
\* batched is handed 0..MaxItems items and a size from -1 to MaxChunk
MaxItems == 6
MaxChunk == 4

\* ------------------------------------------------------- text primitives

Whitespace == {" ", "\t", "NBSP"}
Digits == {"0", "1", "2", "3", "4", "5", "6", "7", "8", "9"}
Letters == {"a", "b", "c", "d", "e", "f", "n", "o", "A", "J", "h", "e_acute"}

DigitValue(c) ==
    CASE c = "0" -> 0 [] c = "1" -> 1 [] c = "2" -> 2 [] c = "3" -> 3
      [] c = "4" -> 4 [] c = "5" -> 5 [] c = "6" -> 6 [] c = "7" -> 7
      [] c = "8" -> 8 [] c = "9" -> 9

RECURSIVE LStrip(_)
LStrip(s) == IF s # <<>> /\ Head(s) \in Whitespace THEN LStrip(Tail(s)) ELSE s

RECURSIVE RStrip(_)
RStrip(s) ==
    IF s # <<>> /\ s[Len(s)] \in Whitespace
    THEN RStrip(SubSeq(s, 1, Len(s) - 1))
    ELSE s

\* str.strip()
Strip(s) == RStrip(LStrip(s))

RECURSIVE Without(_, _)
Without(s, c) ==
    IF s = <<>> THEN <<>>
    ELSE IF Head(s) = c THEN Without(Tail(s), c)
    ELSE <<Head(s)>> \o Without(Tail(s), c)

RECURSIVE DecimalValue(_)
DecimalValue(s) ==
    IF s = <<>> THEN 0
    ELSE 10 * DecimalValue(SubSeq(s, 1, Len(s) - 1)) + DigitValue(s[Len(s)])

\* int(s) for text: surrounding whitespace, an optional sign, decimal digits
\* with single underscores between digits; <<>> stands for ValueError
ParseInt(s) ==
    LET t == Strip(s)
        signed == t # <<>> /\ t[1] \in {"+", "-"}
        body == IF signed THEN Tail(t) ELSE t
        wellFormed ==
            /\ body # <<>>
            /\ \A i \in 1..Len(body) : body[i] \in Digits \cup {"_"}
            /\ body[1] \in Digits
            /\ body[Len(body)] \in Digits
            /\ \A i \in 1..(Len(body) - 1) : ~(body[i] = "_" /\ body[i + 1] = "_")
        magnitude == DecimalValue(Without(body, "_"))
    IN  IF ~wellFormed THEN <<>>
        ELSE IF signed /\ t[1] = "-" THEN <<0 - magnitude>>
        ELSE <<magnitude>>

\* ------------------------------------------------------ field validators

\* a validator's result (ok, code, value); code "None" is Python's None
Accepted(v) == [ok |-> TRUE, code |-> "None", value |-> <<v>>]
Rejected(code) == [ok |-> FALSE, code |-> code, value |-> <<>>]

\* raw field values: text, int, bool, or anything else
StrVal(s) == [type |-> "str", s |-> s]
IntVal(n) == [type |-> "int", n |-> n]
BoolVal(b) == [type |-> "bool", b |-> b]
OtherVal == [type |-> "other"]

\* the shared integer rule of validate_age and validate_banner_id
IntegerField(raw, lo, hi, rangeCode) ==
    IF raw.type = "bool" THEN Rejected("NOT_AN_INTEGER")
    ELSE IF raw.type = "int" THEN
        IF ~(lo <= raw.n /\ raw.n <= hi) THEN Rejected(rangeCode)
        ELSE Accepted(raw.n)
    ELSE IF raw.type = "str" THEN
        IF Strip(raw.s) = <<>> THEN Rejected("EMPTY_AFTER_TRIM")
        ELSE IF ParseInt(Strip(raw.s)) = <<>> THEN Rejected("NOT_AN_INTEGER")
        ELSE IF ~(lo <= ParseInt(Strip(raw.s))[1] /\ ParseInt(Strip(raw.s))[1] <= hi)
             THEN Rejected(rangeCode)
        ELSE Accepted(ParseInt(Strip(raw.s))[1])
    ELSE Rejected("NOT_AN_INTEGER")

validate_age(age, cfg) == IntegerField(age, cfg.min_age, cfg.max_age, "AGE_OUT_OF_RANGE")

validate_banner_id(banner_id) == IntegerField(banner_id, 0, 99, "ID_OUT_OF_RANGE")

\* unicodedata.normalize("NFC", s) on the alphabet of the model: a base
\* letter followed by a combining acute accent composes to one letter
RECURSIVE NFC(_)
NFC(s) ==
    IF Len(s) < 2 THEN s
    ELSE IF s[1] = "e" /\ s[2] = "COMBINING_ACUTE" THEN <<"e_acute">> \o NFC(SubSeq(s, 3, Len(s)))
    ELSE <<s[1]>> \o NFC(Tail(s))

\* the single-pass scan of validate_name: the first offending character decides
RECURSIVE NameScan(_, _)
NameScan(s, last_was_space) ==
    IF s = <<>> THEN "None"
    ELSE IF Head(s) \in Whitespace /\ Head(s) # " " THEN "NON_ASCII_WHITESPACE"
    ELSE IF Head(s) = " " THEN
        IF last_was_space THEN "DOUBLE_SPACE" ELSE NameScan(Tail(s), TRUE)
    ELSE IF Head(s) \notin Letters THEN "NON_LETTER_CHAR"
    ELSE NameScan(Tail(s), FALSE)

validate_name(name) ==
    IF name.type # "str" THEN Rejected("NOT_A_STRING")
    ELSE IF Strip(NFC(name.s)) = <<>> THEN Rejected("EMPTY_AFTER_TRIM")
    ELSE IF NameScan(Strip(NFC(name.s)), FALSE) # "None"
         THEN Rejected(NameScan(Strip(NFC(name.s)), FALSE))
    ELSE Accepted(Strip(NFC(name.s)))

\* ---- validate_cookie: uuid.UUID(s) of the standard library

HexDigits == Digits \cup {"a", "b", "c", "d", "e", "f", "A", "B", "C", "D", "E", "F"}

Lower(c) ==
    CASE c = "A" -> "a" [] c = "B" -> "b" [] c = "C" -> "c"
      [] c = "D" -> "d" [] c = "E" -> "e" [] c = "F" -> "f"
      [] OTHER -> c

\* str.replace(p, ""): every occurrence of p removed, left to right
RECURSIVE RemoveAll(_, _)
RemoveAll(s, p) ==
    IF Len(s) < Len(p) THEN s
    ELSE IF SubSeq(s, 1, Len(p)) = p THEN RemoveAll(SubSeq(s, Len(p) + 1, Len(s)), p)
    ELSE <<Head(s)>> \o RemoveAll(Tail(s), p)

\* str.strip("{}")
RECURSIVE StripBraces(_)
StripBraces(s) ==
    IF s # <<>> /\ Head(s) \in {"{", "}"} THEN StripBraces(Tail(s))
    ELSE IF s # <<>> /\ s[Len(s)] \in {"{", "}"} THEN StripBraces(SubSeq(s, 1, Len(s) - 1))
    ELSE s

\* the 32 hexadecimal digits uuid.UUID(s) extracts, or <<>> for ValueError
UuidHex(s) ==
    LET hex == Without(StripBraces(RemoveAll(RemoveAll(s, <<"u", "r", "n", ":">>),
                                             <<"u", "u", "i", "d", ":">>)), "-")
    IN  IF Len(hex) = 32 /\ \A i \in 1..32 : hex[i] \in HexDigits THEN <<hex>> ELSE <<>>

\* str(u): lowercase, hyphenated 8-4-4-4-12
UuidStr(hex) ==
    LET low == [i \in 1..32 |-> Lower(hex[i])]
    IN  SubSeq(low, 1, 8) \o <<"-">> \o SubSeq(low, 9, 12) \o <<"-">> \o SubSeq(low, 13, 16)
        \o <<"-">> \o SubSeq(low, 17, 20) \o <<"-">> \o SubSeq(low, 21, 32)

validate_cookie(cookie) ==
    IF cookie.type # "str" THEN Rejected("NOT_A_STRING")
    ELSE IF Strip(cookie.s) = <<>> THEN Rejected("EMPTY_AFTER_TRIM")
    ELSE IF UuidHex(Strip(cookie.s)) = <<>> THEN Rejected("BAD_UUID")
    ELSE IF \A i \in 1..32 : UuidHex(Strip(cookie.s))[1][i] = "0" THEN Rejected("NIL_UUID")
    ELSE Accepted(UuidStr(UuidHex(Strip(cookie.s))[1]))

\* ------------------------------------------------------------ sample rows

CookieA == <<"5", "5", "0", "e", "8", "4", "0", "0", "-", "e", "2", "9", "b", "-", "4", "1", "d", "4", "-", "a", "7", "1", "6", "-", "4", "4", "6", "6", "5", "5", "4", "4", "0", "0", "0", "0">>
CookieB == <<"{">> \o <<"5", "5", "0", "E", "8", "4", "0", "0", "E", "2", "9", "B", "4", "1", "D", "4", "A", "7", "1", "6", "4", "4", "6", "6", "5", "5", "4", "4", "0", "0", "0", "1">> \o <<"}">>
CookieNil == <<"0", "0", "0", "0", "0", "0", "0", "0", "-", "0", "0", "0", "0", "-", "0", "0", "0", "0", "-", "0", "0", "0", "0", "-", "0", "0", "0", "0", "0", "0", "0", "0", "0", "0", "0", "0">>
CookieBad == <<"5", "5", "0", "e", "8", "4", "0", "0", "-", "e", "2", "9", "b">>

NameJohn == <<"J", "o", "h", "n">>

NameAnaMaria == <<"A", "n", "a", " ", "A", "n", "a">>

NameJ0hn == <<"J", "0", "h", "n">>

\* rows as the row source hands them over: four text fields, already trimmed
Row(name, age, cookie, banner) ==
    [Name |-> StrVal(name), Age |-> StrVal(age), Cookie |-> StrVal(cookie),
     Banner_id |-> StrVal(banner)]

SampleRows ==
    << Row(NameJohn, <<"3", "0">>, CookieA, <<"1">>),
      Row(NameAnaMaria, <<"+", "2", "0">>, CookieB, <<"0", "7">>),
      Row(NameJohn, <<"a", "b", "c">>, CookieBad, <<"2">>),
      Row(NameJohn, <<"1", "9">>, CookieNil, <<"1", "0", "0">>),
      Row(NameJ0hn, <<"a", "b", "c">>, CookieBad, <<"1", "0", "0">>),
      Row(NameJohn, <<"3", "0">>, CookieA, <<"1", "0", "0">>) >>

\* the rows tried where the delivery of the batches is explored in full
DeliveryRows == {1, 2, 3, 4}

\* the three validators that read no bounds, applied once to each sample row
FieldChecks ==
    [i \in DOMAIN SampleRows |->
        [name |-> validate_name(SampleRows[i].Name),
         cookie |-> validate_cookie(SampleRows[i].Cookie),
         banner |-> validate_banner_id(SampleRows[i].Banner_id)]]

\* --------------------------------------------------------- error taxonomy

Retryable == {"TooManyRequests", "ServerError", "TransportError"}

\* a ShowAdsError: its class and the fields the engine reads; cls "None" is
\* "nothing raised"
Error(cls, status, retry_after_s, endpoint) ==
    [cls |-> cls, status |-> status, retry_after_s |-> retry_after_s, endpoint |-> endpoint]

NoError == Error("None", <<>>, <<>>, "")

\* an HTTP exchange: either the transport raised (no response), or a response
\* with a status code (has_status FALSE: the attribute is missing), a
\* Retry-After header and (for /auth) an AccessToken
Response(status, token) ==
    [transport |-> FALSE, has_status |-> TRUE, status_code |-> status,
     retry_after |-> <<>>, access_token |-> token]
TransportFailure ==
    [transport |-> TRUE, has_status |-> FALSE, status_code |-> 0,
     retry_after |-> <<>>, access_token |-> <<>>]

\* a Retry-After header value: text, or an HTTP-date lying delta seconds ahead
\* of the clock (behind it when delta is negative)
HttpDate(delta) == [type |-> "date", delta |-> delta]

Max(a, b) == IF a >= b THEN a ELSE b

\* parse_retry_after: seconds for a digit string, the time left for an
\* HTTP-date (never negative), None (<<>>) for anything else
parse_retry_after(value) ==
    IF value = <<>> THEN <<>>
    ELSE IF value[1].type = "date" THEN <<Max(0, value[1].delta)>>
    ELSE IF value[1].s = <<>> THEN <<>>
    ELSE IF Strip(value[1].s) # <<>>
            /\ \A i \in 1..Len(Strip(value[1].s)) : Strip(value[1].s)[i] \in Digits
         THEN <<DecimalValue(Strip(value[1].s))>>
    ELSE <<>>

\* faulty variant, for sensitivity analysis: the 5xx range stops at 500
raise_for_status_500_only(resp, endpoint) ==
    IF ~resp.has_status THEN Error("UnexpectedStatus", <<>>, <<>>, endpoint)
    ELSE IF 200 <= resp.status_code /\ resp.status_code < 300 THEN NoError
    ELSE IF resp.status_code = 400
         THEN Error("BadRequest", <<400>>, parse_retry_after(resp.retry_after), endpoint)
    ELSE IF resp.status_code = 401
         THEN Error("Unauthorized", <<401>>, parse_retry_after(resp.retry_after), endpoint)
    ELSE IF resp.status_code = 429
         THEN Error("TooManyRequests", <<429>>, parse_retry_after(resp.retry_after), endpoint)
    ELSE IF resp.status_code = 500
         THEN Error("ServerError", <<resp.status_code>>, parse_retry_after(resp.retry_after),
                    endpoint)
    ELSE Error("UnexpectedStatus", <<resp.status_code>>, parse_retry_after(resp.retry_after),
               endpoint)

raise_for_status(resp, endpoint) ==
    IF ~resp.has_status THEN Error("UnexpectedStatus", <<>>, <<>>, endpoint)
    ELSE IF 200 <= resp.status_code /\ resp.status_code < 300 THEN NoError
    ELSE IF resp.status_code = 400
         THEN Error("BadRequest", <<400>>, parse_retry_after(resp.retry_after), endpoint)
    ELSE IF resp.status_code = 401
         THEN Error("Unauthorized", <<401>>, parse_retry_after(resp.retry_after), endpoint)
    ELSE IF resp.status_code = 429
         THEN Error("TooManyRequests", <<429>>, parse_retry_after(resp.retry_after), endpoint)
    ELSE IF 500 <= resp.status_code /\ resp.status_code < 600
         THEN Error("ServerError", <<resp.status_code>>, parse_retry_after(resp.retry_after),
                    endpoint)
    ELSE Error("UnexpectedStatus", <<resp.status_code>>, parse_retry_after(resp.retry_after),
               endpoint)

from_transport(endpoint) == Error("TransportError", <<>>, <<>>, endpoint)

\* what one data request (session.post + raise_for_status) raises
DataError(resp, endpoint) ==
    IF resp.transport THEN from_transport(endpoint) ELSE raise_for_status(resp, endpoint)

\* faulty variant, for sensitivity analysis: a refresh that failed retryably
\* is passed over and the request goes ahead
RefreshErrorIgnoresTransient(resp) ==
    IF resp.transport THEN NoError
    ELSE IF raise_for_status(resp, "/auth").cls \in Retryable THEN NoError
    ELSE IF raise_for_status(resp, "/auth").cls # "None" THEN raise_for_status(resp, "/auth")
    ELSE IF resp.access_token = <<>>
         THEN Error("UnexpectedStatus", <<resp.status_code>>, <<>>, "/auth")
    ELSE NoError

\* faulty variant, for sensitivity analysis: a 2xx answer without an AccessToken
\* passes for a success
RefreshErrorLenient(resp) ==
    IF resp.transport THEN from_transport("/auth")
    ELSE raise_for_status(resp, "/auth")

\* what AuthClient.refresh raises for the /auth exchange resp
RefreshError(resp) ==
    IF resp.transport THEN from_transport("/auth")
    ELSE IF raise_for_status(resp, "/auth").cls # "None" THEN raise_for_status(resp, "/auth")
    ELSE IF resp.access_token = <<>>
         THEN Error("UnexpectedStatus", <<resp.status_code>>, <<>>, "/auth")
    ELSE NoError

AccessTokens == {"T1", "T2"}

\* the JSON value null, where an /auth answer has it for its AccessToken
JsonNull == "null"

DataResponses ==
    {Response(st, <<>>) : st \in {200, 400, 401, 404, 429, 503}} \cup {TransportFailure}

AuthResponses ==
    {Response(200, <<t>>) : t \in AccessTokens}
    \cup {Response(st, <<>>) : st \in {200, 400, 401, 404, 429, 503}}
    \cup {TransportFailure}

\* ------------------------------------------------------------------ state

VARIABLES
    \* run_pipeline's and the client's parameters
    batch_size, max_batch, max_retries, reload_every_rows,
    \* run_pipeline's locals
    processed, valid, invalid, sent, failed, unsent_valid, reason_counts, batch, age_cfg,
    \* where the run is: "rows" (the for loop awaits the next row), inside
    \* _post_with_retry at "header", "post", "on_unauthorized" or "sleep",
    \* "done" (summary returned) or "crashed" (an exception left run_pipeline)
    pc,
    \* TRUE once the row source is exhausted (the flush after the loop)
    at_end,
    \* which public method runs _post_with_retry: "none", "bulk" (send_bulk's
    \* own request) or "single" (send_single inside the fallback loop)
    level,
    \* the fallback loop of send_bulk: index of the current item, sent, failed
    fb,
    \* _post_with_retry's locals
    attempt, attempted_refresh, retry_exc, headers,
    \* AuthClient's token cache and the wall clock
    token, issued_at, now,
    \* history: what the current _post_with_retry call has done so far
    call,
    \* history: the last step taken and what it observed
    ev,
    \* history: items the API answered 2xx for, rows the row source yielded
    accepted, yielded,
    \* history: line number of each item of batch, and of each send_bulk call
    batch_lines, bulk_calls,
    \* the client's backoff parameters and the last delay handed to time.sleep,
    \* in units of 1/DelayScale second
    backoff_base_s, backoff_cap_s, sleep_s,
    \* the last response classified by the error taxonomy, with its error
    classified,
    \* the process environment (MIN_AGE, MAX_AGE), the configuration file on
    \* disk (its contents and modification time; <<>> when there is none)
    env, file_content, file_mtime,
    \* the Config object: constructor arguments, recorded mtime, poll schedule,
    \* current bounds (_age); cfg_pc is "new" before construction, then "ready",
    \* or "failed" when the constructor raised
    file_path, cli_min, cli_max, interval, next_check, cfg_file_mtime, cfg_age, cfg_pc,
    \* time.monotonic()
    monotonic,
    \* history: the last Config operation and what it returned
    cfg_ev,
    \* one call of validate_age: its arguments and, once made, its result
    age_call,
    \* one use of batched(items, size): the arguments, the position of the
    \* iterator, the chunks yielded so far, and what the generator raised
    gen

vars ==
    <<batch_size, max_batch, max_retries, processed, valid, invalid, sent, failed,
      unsent_valid, reason_counts, batch, age_cfg, pc, at_end, level, fb, attempt,
      attempted_refresh, retry_exc, headers, token, issued_at, now, call, ev, accepted,
      yielded, batch_lines, bulk_calls, backoff_base_s, backoff_cap_s, sleep_s,
      classified, env, file_content, file_mtime, file_path, cli_min, cli_max, interval,
      next_check, cfg_file_mtime, cfg_age, cfg_pc, monotonic, cfg_ev, reload_every_rows,
      age_call, gen>>

params == <<batch_size, max_batch, max_retries, reload_every_rows>>
rowVars == <<processed, valid, invalid, reason_counts, age_cfg, yielded>>
authVars == <<token, issued_at>>
backoffVars == <<backoff_base_s, backoff_cap_s, sleep_s>>
configVars ==
    <<env, file_content, file_mtime, file_path, cli_min, cli_max, interval, next_check,
      cfg_file_mtime, cfg_age, cfg_pc, monotonic, cfg_ev>>
\* the pure functions exercised on their own
pureVars == <<age_call, gen>>
\* what the delivery of a batch leaves alone
otherVars == <<backoffVars, classified, configVars, pureVars>>
\* the pipeline's own state, but for the retry loop's max_retries, attempt,
\* retry_exc and pc
runVars ==
    <<batch_size, max_batch, reload_every_rows, processed, valid, invalid, sent, failed, unsent_valid,
      reason_counts, batch, age_cfg, at_end, level, fb, attempted_refresh, headers, token,
      issued_at, now, call, ev, accepted, yielded, batch_lines, bulk_calls>>
retryVars == <<max_retries, attempt, retry_exc, pc>>

DEFAULT_MIN_AGE == 18
DEFAULT_MAX_AGE == 120

\* run_pipeline's default for reload_every_rows, and the CLI's
DEFAULT_RELOAD_EVERY_ROWS == 10000

\* AuthClient's constructor parameter proactive_refresh_seconds (23 h by
\* default), here one tick of the model's clock so that a cached token comes of
\* age within MaxTime
proactive_refresh_seconds == 1

\* the text "***redacted***"
REDACTED ==
    <<"*", "*", "*", "r", "e", "d", "a", "c", "t", "e", "d", "*", "*", "*">>

NoCall == [data_requests |-> 0, reactive_refreshes |-> 0, proactive_refreshes |-> 0,
           sleeps |-> 0, retryable_failures |-> 0, retryable_after_refresh |-> 0]

NoFallback == [i |-> 0, sent |-> 0, failed |-> <<>>]

\* a step's record: the exchange it made, the error class that left
\* _post_with_retry in it, whether the call ended, the call's counters, what
\* send_single did when its call ended in it ("True", "False", "raise"; "none"
\* otherwise), the Authorization header a data request carried (authorization),
\* and how a flush ended in it: "none", "returned", "raised" (a ShowAdsError caught by
\* flush_batch) or "escaped" (any other exception), with send_bulk's result;
\* row is the sample row a step of the for loop handled (0 otherwise), item
\* the position in the batch of the item whose send_single call ended (0 otherwise)
Event(op, lvl, resp, raised, ended, c, flush, result, size) ==
    [op |-> op, level |-> lvl, resp |-> resp, raised |-> raised, ended |-> ended,
     call |-> c, flush |-> flush, result |-> result, size |-> size, single |-> "none",
     authorization |-> <<>>, row |-> 0, item |-> 0]

PlainEvent(op) == Event(op, "none", <<>>, "None", FALSE, NoCall, "none", <<>>, 0)

\* what a step records of an HTTP exchange
Seen(resp) ==
    <<[transport |-> resp.transport, status_code |-> resp.status_code,
       access_token |-> resp.access_token]>>

Min(a, b) == IF a <= b THEN a ELSE b

\* faulty variant, for sensitivity analysis: the requested size is not capped
effective_batch_uncapped == batch_size

\* pipeline.py: effective_batch = min(desired, cap)
effective_batch == Min(batch_size, max_batch)

\* run_pipeline's locals, the client and the token cache before the first row
RunLocals ==
    /\ processed = 0 /\ valid = 0 /\ invalid = 0
    /\ sent = 0 /\ failed = 0 /\ unsent_valid = 0
    /\ reason_counts = <<>>
    /\ batch = <<>>
    /\ at_end = FALSE
    /\ level = "none"
    /\ fb = NoFallback
    /\ attempted_refresh = FALSE /\ headers = <<>>
    /\ token = <<>> /\ issued_at = 0 /\ now = 0
    /\ call = NoCall
    /\ ev = PlainEvent("init")
    /\ accepted = 0 /\ yielded = 0
    /\ batch_lines = <<>> /\ bulk_calls = <<>>

\* the same with the bounds of a Config that was given no source
RunStart ==
    /\ RunLocals
    /\ age_cfg = [min_age |-> DEFAULT_MIN_AGE, max_age |-> DEFAULT_MAX_AGE]

\* no pipeline is running: "idle" is a position no step of run_pipeline starts from
NoRun ==
    /\ RunStart
    /\ batch_size = 0 /\ max_batch = 0
    /\ reload_every_rows = DEFAULT_RELOAD_EVERY_ROWS

NoRetryLoop == max_retries = 0 /\ attempt = 0 /\ retry_exc = NoError /\ pc = "idle"

\* no pure function is being exercised
NoPure == age_call = <<>> /\ gen = <<>>

\* no delay has been computed
NoBackoff == backoff_base_s = 0 /\ backoff_cap_s = 0 /\ sleep_s = <<>>

\* the environment, the file and the Config object when no Config is in use:
\* nothing set, no file, the object not constructed
NoConfig ==
    /\ env = [MIN_AGE |-> <<>>, MAX_AGE |-> <<>>]
    /\ file_content = [kind |-> "missing", min_age |-> <<>>, max_age |-> <<>>]
    /\ file_mtime = <<>>
    /\ file_path = <<>>
    /\ cli_min = <<>> /\ cli_max = <<>>
    /\ interval = 0 /\ next_check = 0 /\ monotonic = 0
    /\ cfg_file_mtime = <<>>
    /\ cfg_age = [min_age |-> DEFAULT_MIN_AGE, max_age |-> DEFAULT_MAX_AGE]
    /\ cfg_pc = "new"
    /\ cfg_ev = [op |-> "init", returned |-> "None", raised |-> "None", changed |-> FALSE,
                 checked |-> FALSE, last_pass |-> <<>>, rejected_at |-> <<>>]

\* a Config constructed with no file, no overrides and an empty environment
DefaultConfig ==
    /\ env = [MIN_AGE |-> <<>>, MAX_AGE |-> <<>>]
    /\ file_content = [kind |-> "missing", min_age |-> <<>>, max_age |-> <<>>]
    /\ file_mtime = <<>>
    /\ file_path = <<>>
    /\ cli_min = <<>> /\ cli_max = <<>>
    /\ interval = 0 /\ next_check = 0 /\ monotonic = 0
    /\ cfg_file_mtime = <<>>
    /\ cfg_age = [min_age |-> DEFAULT_MIN_AGE, max_age |-> DEFAULT_MAX_AGE]
    /\ cfg_pc = "ready"
    /\ cfg_ev = [op |-> "init", returned |-> "None", raised |-> "None", changed |-> FALSE,
                 checked |-> FALSE, last_pass |-> <<>>, rejected_at |-> <<>>]

Init ==
    \* cli.py passes --batch-size as the client's cap and as the requested size
    /\ batch_size \in 0..MaxBatchSize
    /\ max_batch = batch_size
    /\ max_retries \in 0..MaxRetriesBound
    /\ RunStart
    /\ pc = "rows"
    /\ attempt = 0 /\ retry_exc = NoError
    /\ reload_every_rows = DEFAULT_RELOAD_EVERY_ROWS
    /\ NoBackoff
    /\ classified = <<>>
    /\ DefaultConfig
    /\ NoPure

\* ================================================================ Config
\* config.py: the live-reloading age bounds

\* _env_int: the variable's integer value, the default when it is unset or
\* not an integer
env_int(raw, default) ==
    IF raw = <<>> THEN default
    ELSE IF ParseInt(raw[1]) = <<>> THEN default
    ELSE ParseInt(raw[1])[1]

\* a configuration file: missing, unreadable ("garbage", not JSON), JSON that is
\* not an object ("value"), or a JSON object with its min_age and max_age
\* members (<<>>: no such member)
File(kind, lo, hi) == [kind |-> kind, min_age |-> lo, max_age |-> hi]

\* _load_json_file: the parsed document; {} for a missing or unreadable file
load_json_file(content) ==
    IF content.kind \in {"missing", "garbage"} THEN File("object", <<>>, <<>>) ELSE content

\* isinstance(data.get(key), int): a JSON integer, or true / false (bool is a
\* subclass of int)
is_int(member) == member # <<>> /\ member[1].type \in {"int", "bool"}

\* the integer such a member counts as
int_value(member) ==
    IF member[1].type = "bool" THEN (IF member[1].b THEN 1 ELSE 0) ELSE member[1].n

\* _get_mtime
get_mtime(path) == IF path = <<>> THEN <<>> ELSE file_mtime

\* faulty variant, for sensitivity analysis: the order of the bounds is not checked
validate_age_bounds_sign_only(min_age, max_age) ==
    IF min_age < 0 \/ max_age < 0 THEN "ValueError" ELSE "None"

\* faulty variant, for sensitivity analysis: the sign of the bounds is not checked
validate_age_bounds_order_only(min_age, max_age) ==
    IF min_age > max_age THEN "ValueError" ELSE "None"

\* _validate_age_bounds: what it raises
validate_age_bounds(min_age, max_age) ==
    IF min_age > max_age THEN "ValueError"
    ELSE IF min_age < 0 \/ max_age < 0 THEN "ValueError"
    ELSE "None"

\* faulty variant, for sensitivity analysis: the file is read after the overrides
\* are applied, so the file wins
merged_file_last(key, default) ==
    LET from_env == env_int(env[IF key = "min_age" THEN "MIN_AGE" ELSE "MAX_AGE"], default)
        cli == IF key = "min_age" THEN cli_min ELSE cli_max
        from_cli == IF cli # <<>> THEN cli[1] ELSE from_env
        data == load_json_file(file_content)
    IN  IF file_path # <<>> /\ is_int(data[key]) THEN int_value(data[key]) ELSE from_cli

\* _reload_from_sources lines 179-198: one bound merged from the default, the
\* environment, the file and the override, in that order
merged(key, default) ==
    LET from_env == env_int(env[IF key = "min_age" THEN "MIN_AGE" ELSE "MAX_AGE"], default)
        data == load_json_file(file_content)
        from_file == IF file_path # <<>> /\ is_int(data[key]) THEN int_value(data[key])
                     ELSE from_env
        cli == IF key = "min_age" THEN cli_min ELSE cli_max
    IN  IF cli # <<>> THEN cli[1] ELSE from_file

\* faulty variant, for sensitivity analysis: the overrides are applied by the
\* constructor only, a reload merges defaults, environment and file
reload_from_sources_overrides_once(initial) ==
    LET no_cli(key, default) ==
            IF file_path # <<>> /\ is_int(load_json_file(file_content)[key])
            THEN int_value(load_json_file(file_content)[key])
            ELSE env_int(env[IF key = "min_age" THEN "MIN_AGE" ELSE "MAX_AGE"], default)
        lo == IF initial THEN merged("min_age", DEFAULT_MIN_AGE)
              ELSE no_cli("min_age", DEFAULT_MIN_AGE)
        hi == IF initial THEN merged("max_age", DEFAULT_MAX_AGE)
              ELSE no_cli("max_age", DEFAULT_MAX_AGE)
    IN  IF file_path # <<>> /\ load_json_file(file_content).kind # "object"
        THEN [raised |-> "AttributeError", age |-> cfg_age]
        ELSE IF validate_age_bounds(lo, hi) # "None"
        THEN [raised |-> IF initial THEN "ValueError" ELSE "None", age |-> cfg_age]
        ELSE [raised |-> "None", age |-> [min_age |-> lo, max_age |-> hi]]

\* _reload_from_sources: what it raises and the bounds it leaves in _age.
\* data.get on a document that is not an object raises AttributeError.
reload_from_sources(initial) ==
    IF file_path # <<>> /\ load_json_file(file_content).kind # "object"
    THEN [raised |-> "AttributeError", age |-> cfg_age]
    ELSE IF validate_age_bounds(merged("min_age", DEFAULT_MIN_AGE),
                                merged("max_age", DEFAULT_MAX_AGE)) # "None"
    THEN [raised |-> IF initial THEN "ValueError" ELSE "None", age |-> cfg_age]
    ELSE [raised |-> "None",
          age |-> [min_age |-> merged("min_age", DEFAULT_MIN_AGE),
                   max_age |-> merged("max_age", DEFAULT_MAX_AGE)]]

\* the record of a Config operation: what it returned or raised; checked: the
\* call got past the rate limit and looked at the file's modification time;
\* changed: it found the time changed and merged the sources again.
\* History kept from one record to the next: last_pass, the monotonic time of
\* the last poll that got past the rate limit, and rejected_at, the
\* modification time found by the last poll whose merged bounds were rejected
\* (each <<>> when there was none since construction)
ConfigEvent(op, returned, raised, changed) ==
    [op |-> op, returned |-> returned, raised |-> raised, changed |-> changed,
     checked |-> FALSE, last_pass |-> <<>>, rejected_at |-> <<>>]

\* what the external world does between two steps of the program
OtherEvent ==
    [ConfigEvent("world", "None", "None", FALSE)
        EXCEPT !.last_pass = cfg_ev.last_pass, !.rejected_at = cfg_ev.rejected_at]

\* text of the environment variables tried
EnvSamples ==
    { [MIN_AGE |-> <<>>, MAX_AGE |-> <<>>],
      [MIN_AGE |-> << <<"3", "0">> >>, MAX_AGE |-> << <<"4", "0">> >>],
      [MIN_AGE |-> << <<"a", "b", "c">> >>, MAX_AGE |-> << <<" ", "4", "0">> >>] }

\* contents of the configuration file tried (other than a missing file)
FileSamples ==
    { File("garbage", <<>>, <<>>),
      File("value", <<>>, <<>>),
      File("object", <<IntVal(25)>>, <<IntVal(35)>>),
      File("object", <<IntVal(40)>>, <<IntVal(30)>>),
      File("object", <<IntVal(0 - 1)>>, <<IntVal(35)>>),
      File("object", <<IntVal(25)>>, <<>>),
      File("object", <<OtherVal>>, <<BoolVal(TRUE)>>) }

\* the constructor's min_age / max_age arguments tried
CliSamples == { <<<<>>, <<>>>>, <<<<50>>, <<60>>>>, <<<<50>>, <<>>>>, <<<<>>, <<32>>>> }

ConfigInit ==
    /\ NoRun /\ NoRetryLoop /\ NoBackoff /\ NoPure /\ classified = <<>>
    /\ env \in EnvSamples
    /\ \/ file_content = File("missing", <<>>, <<>>) /\ file_mtime = <<>>
       \/ file_content \in FileSamples /\ file_mtime = <<1>>
    /\ file_path \in {<<>>, <<"config.json">>}
    /\ \E cli \in CliSamples : cli_min = cli[1] /\ cli_max = cli[2]
    /\ interval \in 0..MaxTime
    /\ next_check = 0 /\ monotonic = 0
    /\ cfg_file_mtime = <<>>
    /\ cfg_age = [min_age |-> DEFAULT_MIN_AGE, max_age |-> DEFAULT_MAX_AGE]
    /\ cfg_pc = "new"
    /\ cfg_ev = ConfigEvent("init", "None", "None", FALSE)

deliveryVars == <<runVars, retryVars, backoffVars, classified>>

pipelineVars == <<deliveryVars, pureVars>>

\* Config.__init__, lines 109-122
Construct ==
    /\ cfg_pc = "new"
    /\ cfg_file_mtime' = get_mtime(file_path)
    /\ next_check' = monotonic
    /\ cfg_age' = reload_from_sources(TRUE).age
    /\ cfg_pc' = IF reload_from_sources(TRUE).raised = "None" THEN "ready" ELSE "failed"
    /\ cfg_ev' = ConfigEvent("construct",
                             IF reload_from_sources(TRUE).raised = "None" THEN "None"
                             ELSE "raise",
                             reload_from_sources(TRUE).raised, FALSE)
    /\ UNCHANGED <<pipelineVars, env, file_content, file_mtime, file_path, cli_min, cli_max,
                   interval, monotonic>>

\* faulty variant, for sensitivity analysis: True whenever the file was found changed
poll_result_on_change(old_age, new_age) == "True"

\* lines 159-165: True when the reload left other bounds than there were
poll_result(old_age, new_age) == IF new_age # old_age THEN "True" ELSE "False"

\* the record of a poll, with the history carried on
PollEvent(returned, raised, changed, checked, rejected) ==
    [ConfigEvent("poll", returned, raised, changed)
        EXCEPT !.checked = checked,
               !.last_pass = IF checked THEN <<monotonic>> ELSE cfg_ev.last_pass,
               !.rejected_at = IF rejected THEN <<get_mtime(file_path)>>
                               ELSE cfg_ev.rejected_at]

\* faulty variant, for sensitivity analysis: the new modification time is
\* recorded only when the reload was not rejected
mtime_kept_on_rejection(new_mtime, old_mtime, rejected) ==
    IF rejected THEN old_mtime ELSE new_mtime

\* lines 152-155: the new modification time is recorded before the reload
mtime_recorded(new_mtime, old_mtime, rejected) == new_mtime

\* faulty variant, for sensitivity analysis: a call at the very time of the next check is held back
rate_limited_inclusive(t) == t <= next_check

\* lines 143-145: now < self._next_check
rate_limited(t) == t < next_check

\* Config.reload_if_needed: what a call does to the Config object
reload_if_needed ==
    /\ IF rate_limited(monotonic) THEN
            /\ cfg_ev' = PollEvent("False", "None", FALSE, FALSE, FALSE)
            /\ UNCHANGED <<next_check, cfg_file_mtime, cfg_age>>
       ELSE
            /\ next_check' = monotonic + interval
            /\ IF get_mtime(file_path) = cfg_file_mtime THEN
                    /\ cfg_ev' = PollEvent("False", "None", FALSE, TRUE, FALSE)
                    /\ UNCHANGED <<cfg_file_mtime, cfg_age>>
               ELSE
                    LET rejected ==
                            /\ reload_from_sources(FALSE).raised = "None"
                            /\ validate_age_bounds(merged("min_age", DEFAULT_MIN_AGE),
                                                   merged("max_age", DEFAULT_MAX_AGE)) # "None"
                    IN  /\ cfg_file_mtime' = mtime_recorded(get_mtime(file_path),
                                                            cfg_file_mtime, rejected)
                        /\ cfg_age' = reload_from_sources(FALSE).age
                        /\ cfg_ev' =
                             IF reload_from_sources(FALSE).raised # "None"
                             THEN PollEvent("raise", reload_from_sources(FALSE).raised, TRUE,
                                            TRUE, FALSE)
                             ELSE PollEvent(poll_result(cfg_age, reload_from_sources(FALSE).age),
                                            "None", TRUE, TRUE, rejected)

\* a caller polls the Config
Poll ==
    /\ cfg_pc = "ready"
    /\ UNCHANGED <<pipelineVars, env, file_content, file_mtime, file_path, cli_min, cli_max,
                   interval, monotonic, cfg_pc>>
    /\ reload_if_needed

\* an external writer replaces the file (os.replace) and it gets the mtime t
WriteFile(content, t) ==
    /\ cfg_pc = "ready"
    /\ file_path # <<>>
    /\ file_content' = content
    /\ file_mtime' = <<t>>
    /\ cfg_ev' = OtherEvent
    /\ UNCHANGED <<pipelineVars, env, file_path, cli_min, cli_max, interval, next_check,
                   cfg_file_mtime, cfg_age, cfg_pc, monotonic>>

\* the file is removed
DeleteFile ==
    /\ cfg_pc = "ready"
    /\ file_path # <<>>
    /\ file_content.kind # "missing"
    /\ file_content' = File("missing", <<>>, <<>>)
    /\ file_mtime' = <<>>
    /\ cfg_ev' = OtherEvent
    /\ UNCHANGED <<pipelineVars, env, file_path, cli_min, cli_max, interval, next_check,
                   cfg_file_mtime, cfg_age, cfg_pc, monotonic>>

\* the process environment changes (os.environ is read again on every reload)
SetEnv(e) ==
    /\ cfg_pc = "ready"
    /\ e # env
    /\ env' = e
    /\ cfg_ev' = OtherEvent
    /\ UNCHANGED <<pipelineVars, file_content, file_mtime, file_path, cli_min, cli_max,
                   interval, next_check, cfg_file_mtime, cfg_age, cfg_pc, monotonic>>

\* time.monotonic() advances
Tick ==
    /\ cfg_pc = "ready"
    /\ monotonic < MaxTime
    /\ monotonic' = monotonic + 1
    /\ cfg_ev' = OtherEvent
    /\ UNCHANGED <<pipelineVars, env, file_content, file_mtime, file_path, cli_min, cli_max,
                   interval, next_check, cfg_file_mtime, cfg_age, cfg_pc>>

NextConfig ==
    \/ Construct
    \/ Poll
    \/ \E content \in FileSamples : \E t \in 1..MaxMtime : WriteFile(content, t)
    \/ DeleteFile
    \/ \E e \in EnvSamples : SetEnv(e)
    \/ Tick

SpecConfig == ConfigInit /\ [][NextConfig]_vars

\* ----------------------------------------------------------- run_pipeline

\* faulty variant, for sensitivity analysis: the cookie is checked before the age
RowCheck_cookie_before_age(i, cfg) ==
    IF ~FieldChecks[i].name.ok THEN FieldChecks[i].name
    ELSE IF ~FieldChecks[i].cookie.ok THEN FieldChecks[i].cookie
    ELSE IF ~validate_age(SampleRows[i].Age, cfg).ok THEN validate_age(SampleRows[i].Age, cfg)
    ELSE FieldChecks[i].banner

\* the row's checks in the fixed order Name, Age, Cookie, Banner_id: the
\* first failing validator's result, or the last one's when all pass
RowCheck(i, cfg) ==
    IF ~FieldChecks[i].name.ok THEN FieldChecks[i].name
    ELSE IF ~validate_age(SampleRows[i].Age, cfg).ok THEN validate_age(SampleRows[i].Age, cfg)
    ELSE IF ~FieldChecks[i].cookie.ok THEN FieldChecks[i].cookie
    ELSE FieldChecks[i].banner

\* the payload item built from a row that passed
Item(i) ==
    [VisitorCookie |-> FieldChecks[i].cookie.value[1],
     BannerId |-> FieldChecks[i].banner.value[1]]

\* faulty variant, for sensitivity analysis: the count is set to one instead of being incremented
CounterSet(counter, key) ==
    [k \in DOMAIN counter \cup {key} |-> IF k = key THEN 1 ELSE counter[k]]

\* Counter: reason_counts[code] += 1
CounterInc(counter, key) ==
    [k \in DOMAIN counter \cup {key} |->
        IF k = key THEN (IF key \in DOMAIN counter THEN counter[key] ELSE 0) + 1
        ELSE counter[k]]

\* faulty variant, for sensitivity analysis: the size check is off by one
batch_too_large_off_by_one(items) == Len(items) > max_batch + 1

\* send_bulk line 67: more items than the client's cap
batch_too_large(items) == Len(items) > max_batch

\* flush_batch entered with the buffer b (line numbers ls): nothing to do for
\* an empty buffer; send_bulk rejects an oversized one with ValueError, which
\* flush_batch does not catch (its finally still clears the buffer);
\* otherwise send_bulk starts its bulk request
BeginFlush(b, ls, end, op, row) ==
    /\ at_end' = end
    /\ fb' = NoFallback
    /\ attempt' = 0 /\ attempted_refresh' = FALSE /\ retry_exc' = NoError
    /\ headers' = <<>>
    /\ call' = NoCall
    /\ IF b = <<>> THEN
            /\ pc' = IF end THEN "done" ELSE "rows"
            /\ level' = "none"
            /\ batch' = <<>> /\ batch_lines' = <<>>
            /\ bulk_calls' = bulk_calls
            /\ ev' = [PlainEvent(op) EXCEPT !.row = row]
       ELSE IF batch_too_large(b) THEN
            /\ pc' = "crashed"
            /\ level' = "none"
            /\ batch' = <<>> /\ batch_lines' = <<>>
            /\ bulk_calls' = Append(bulk_calls, ls)
            /\ ev' = [Event(op, "none", <<>>, "ValueError", FALSE, NoCall, "escaped",
                            <<>>, Len(b)) EXCEPT !.row = row]
       ELSE
            /\ pc' = "header"
            /\ level' = "bulk"
            /\ batch' = b /\ batch_lines' = ls
            /\ bulk_calls' = Append(bulk_calls, ls)
            /\ ev' = [PlainEvent(op) EXCEPT !.row = row]

\* faulty variant, for sensitivity analysis: the Config is polled on every row
reload_due_every_row(n) == reload_every_rows # 0

\* line 96: processed % reload_every_rows == 0 (a reload_every_rows of 0 raises
\* ZeroDivisionError instead)
reload_due(n) == reload_every_rows # 0 /\ n % reload_every_rows = 0

\* faulty variant, for sensitivity analysis: the item is put in front of the buffer
buffer_prepend(b, item) == <<item>> \o b

\* line 140: batch.append(item)
buffer_append(b, item) == Append(b, item)

\* faulty variant, for sensitivity analysis: the bounds read before the loop are kept
snapshot_kept(returned, current, held) == held

\* lines 97-98: if cfg.reload_if_needed(): age_cfg = cfg.age()
snapshot_after_poll(returned, current, held) == IF returned = "True" THEN current ELSE held

\* one iteration of the for loop over the rows, the row being SampleRows[row]:
\* the row is counted, the Config is polled when a checkpoint is due, the row
\* is checked against the bounds in hand and, when valid, buffered; a full
\* buffer is flushed. An exception of the poll leaves run_pipeline.
NextRow(row) ==
    /\ pc = "rows"
    /\ processed < MaxRows
    /\ yielded' = yielded + 1
    /\ processed' = processed + 1
    /\ UNCHANGED <<backoffVars, classified, pureVars, params, sent, failed, unsent_valid,
                   authVars, now, accepted>>
    /\ UNCHANGED <<env, file_content, file_mtime, file_path, cli_min, cli_max, interval,
                   monotonic, cfg_pc>>
    /\ IF reload_due(processed + 1) THEN reload_if_needed
       ELSE UNCHANGED <<next_check, cfg_file_mtime, cfg_age, cfg_ev>>
    /\ IF reload_every_rows = 0 \/ (reload_due(processed + 1) /\ cfg_ev'.raised # "None") THEN
            /\ pc' = "crashed"
            /\ ev' = [Event("row", "none", <<>>,
                            IF reload_every_rows = 0 THEN "ZeroDivisionError"
                            ELSE cfg_ev'.raised,
                            FALSE, NoCall, "none", <<>>, 0) EXCEPT !.row = row]
            /\ UNCHANGED <<age_cfg, valid, invalid, reason_counts, batch, batch_lines,
                           bulk_calls, at_end, level, fb, attempt, attempted_refresh,
                           retry_exc, headers, call>>
       ELSE
            /\ age_cfg' = IF reload_due(processed + 1)
                          THEN snapshot_after_poll(cfg_ev'.returned, cfg_age', age_cfg)
                          ELSE age_cfg
            /\ IF ~RowCheck(row, age_cfg').ok THEN
                    /\ invalid' = invalid + 1
                    /\ reason_counts' = CounterInc(reason_counts, RowCheck(row, age_cfg').code)
                    /\ ev' = [PlainEvent("row") EXCEPT !.row = row]
                    /\ UNCHANGED <<valid, batch, batch_lines, bulk_calls, pc, at_end, level,
                                   fb, attempt, attempted_refresh, retry_exc, headers, call>>
               ELSE
                    /\ valid' = valid + 1
                    /\ UNCHANGED <<invalid, reason_counts>>
                    /\ IF Len(batch) + 1 >= effective_batch
                       THEN BeginFlush(buffer_append(batch, Item(row)),
                                       Append(batch_lines, processed + 1), FALSE, "row", row)
                       ELSE /\ batch' = buffer_append(batch, Item(row))
                            /\ batch_lines' = Append(batch_lines, processed + 1)
                            /\ ev' = [PlainEvent("row") EXCEPT !.row = row]
                            /\ UNCHANGED <<bulk_calls, pc, at_end, level, fb, attempt,
                                           attempted_refresh, retry_exc, headers, call>>

\* the row source is exhausted: flush the leftover items, build the summary
EndOfRows ==
    /\ pc = "rows"
    /\ UNCHANGED <<otherVars, params, rowVars, sent, failed, unsent_valid, authVars, now,
                   accepted>>
    /\ BeginFlush(batch, batch_lines, TRUE, "end", 0)

\* ------------------------------------------------------ ShowAdsClient

\* faulty variant, for sensitivity analysis: the failure entry keeps the item's own cookie
FailedEntryRaw(it, reason, status) ==
    [item |-> [VisitorCookie |-> it.VisitorCookie, BannerId |-> it.BannerId],
     reason |-> reason, status |-> status]

\* a failure entry of the fallback: the cookie is replaced by the placeholder
FailedEntry(it, reason, status) ==
    [item |-> [VisitorCookie |-> REDACTED, BannerId |-> it.BannerId],
     reason |-> reason, status |-> status]

BatchResult(n_sent, failed_items) == [sent |-> n_sent, failed |-> failed_items]

\* send_single: what it returns ("True", "False") or "raise" when the error
\* of its _post_with_retry call leaves it
send_single(exc) ==
    IF exc.cls = "None" THEN "True"
    ELSE IF exc.cls = "BadRequest" THEN "False"
    ELSE "raise"

\* faulty variant, for sensitivity analysis: Unauthorized is recorded as a
\* failure entry like the retryable errors and the loop goes on
FallbackItemRecordsUnauthorized(exc) ==
    IF send_single(exc) = "True" THEN "sent"
    ELSE IF send_single(exc) = "False" THEN "failed"
    ELSE IF exc.cls \in Retryable \cup {"Unauthorized"} THEN "failed"
    ELSE "raise"

\* the fallback loop's handling of one send_single outcome: "sent", "failed"
\* (an entry is recorded, the loop goes on) or "raise" (the error leaves send_bulk)
FallbackItem(exc) ==
    IF send_single(exc) = "True" THEN "sent"
    ELSE IF send_single(exc) = "False" THEN "failed"
    ELSE IF exc.cls = "Unauthorized" THEN "raise"
    ELSE IF exc.cls \in Retryable THEN "failed"
    ELSE "raise"

\* faulty variant, for sensitivity analysis: an item whose send raised a
\* retryable error is skipped without an entry
FallbackAfterSkipsRetryable(exc) ==
    [i |-> fb.i,
     sent |-> IF FallbackItem(exc) = "sent" THEN fb.sent + 1 ELSE fb.sent,
     failed |->
        IF send_single(exc) = "False"
        THEN Append(fb.failed, FailedEntry(batch[fb.i], "BAD_REQUEST", <<400>>))
        ELSE fb.failed]

\* the fallback loop's locals after the current item ended with exc
FallbackAfter(exc) ==
    [i |-> fb.i,
     sent |-> IF FallbackItem(exc) = "sent" THEN fb.sent + 1 ELSE fb.sent,
     failed |->
        IF FallbackItem(exc) # "failed" THEN fb.failed
        ELSE IF send_single(exc) = "False"
             THEN Append(fb.failed, FailedEntry(batch[fb.i], "BAD_REQUEST", <<400>>))
        ELSE Append(fb.failed, FailedEntry(batch[fb.i], exc.cls, exc.status))]

\* send_bulk after its current _post_with_retry call ended with exc (cls "None":
\* it returned): <<"return", result>>, <<"raise">> or <<"next", fallback locals>>
\* when another send_single call follows
send_bulk(exc) ==
    IF level = "bulk" THEN
        IF exc.cls = "None" THEN <<"return", BatchResult(Len(batch), <<>>)>>
        ELSE IF exc.cls = "BadRequest" THEN
            IF batch = <<>> THEN <<"return", BatchResult(0, <<>>)>>
            ELSE <<"next", [i |-> 1, sent |-> 0, failed |-> <<>>]>>
        ELSE <<"raise">>
    ELSE
        IF FallbackItem(exc) = "raise" THEN <<"raise">>
        ELSE IF fb.i < Len(batch)
             THEN <<"next", [FallbackAfter(exc) EXCEPT !.i = fb.i + 1]>>
        ELSE <<"return", BatchResult(FallbackAfter(exc).sent, FallbackAfter(exc).failed)>>

\* faulty variant, for sensitivity analysis: the failure entries of a result are not counted
flush_counts_drops_failed(outcome) ==
    IF outcome[1] = "return"
    THEN <<sent + outcome[2].sent, failed, unsent_valid>>
    ELSE <<sent, failed, unsent_valid + Len(batch)>>

\* faulty variant, for sensitivity analysis: a batch whose send raised is counted as failed, not as unsent
flush_counts_as_failed(outcome) ==
    IF outcome[1] = "return"
    THEN <<sent + outcome[2].sent, failed + Len(outcome[2].failed), unsent_valid>>
    ELSE <<sent, failed + Len(batch), unsent_valid>>

\* flush_batch's accounting <<sent, failed, unsent_valid>> once send_bulk
\* is over: the result is folded in, a ShowAdsError counts the whole batch unsent
flush_counts(outcome) ==
    IF outcome[1] = "return"
    THEN <<sent + outcome[2].sent, failed + Len(outcome[2].failed), unsent_valid>>
    ELSE <<sent, failed, unsent_valid + Len(batch)>>

\* faulty variant, for sensitivity analysis: the buffer is cleared after a successful send only
flush_clear_on_success(b, outcome) == IF outcome[1] = "return" THEN <<>> ELSE b

\* flush_batch's finally: batch.clear(), whatever send_bulk's outcome
flush_finally(b, outcome) == <<>>

SingleOutcome(exc) == IF level = "single" THEN send_single(exc) ELSE "none"

\* the current _post_with_retry call is over, with exc raised (cls "None": it
\* returned); control goes back through send_single / send_bulk / flush_batch
\* up to the next request or the next row
Finish(exc, op, resp, c) ==
    /\ attempt' = 0 /\ attempted_refresh' = FALSE /\ retry_exc' = NoError
    /\ headers' = <<>>
    /\ call' = NoCall
    /\ UNCHANGED <<at_end, bulk_calls>>
    /\ IF send_bulk(exc)[1] = "next" THEN
            /\ fb' = send_bulk(exc)[2]
            /\ level' = "single"
            /\ pc' = "header"
            /\ UNCHANGED <<sent, failed, unsent_valid, batch, batch_lines>>
            /\ ev' = [Event(op, level, resp, exc.cls, TRUE, c, "none", <<>>, 0)
                         EXCEPT !.single = SingleOutcome(exc),
                                !.item = fb.i,
                                !.authorization = IF op = "post" THEN headers ELSE <<>>]
       ELSE
            /\ fb' = NoFallback
            /\ level' = "none"
            /\ pc' = IF at_end THEN "done" ELSE "rows"
            /\ sent' = flush_counts(send_bulk(exc))[1]
            /\ failed' = flush_counts(send_bulk(exc))[2]
            /\ unsent_valid' = flush_counts(send_bulk(exc))[3]
            /\ batch' = flush_finally(batch, send_bulk(exc))
            /\ batch_lines' = IF flush_finally(batch, send_bulk(exc)) = <<>> THEN <<>> ELSE batch_lines
            /\ ev' = [(IF send_bulk(exc)[1] = "return"
                       THEN Event(op, level, resp, exc.cls, TRUE, c, "returned",
                                  <<send_bulk(exc)[2]>>, Len(batch))
                       ELSE Event(op, level, resp, exc.cls, TRUE, c, "raised", <<>>,
                                  Len(batch)))
                         EXCEPT !.single = SingleOutcome(exc),
                                !.item = fb.i,
                                !.authorization = IF op = "post" THEN headers ELSE <<>>]

\* faulty variant, for sensitivity analysis: the token's age is not looked at
needs_refresh_only_missing == token = <<>>

\* AuthClient._needs_refresh
needs_refresh ==
    \/ token = <<>>
    \/ now - issued_at >= proactive_refresh_seconds

\* get_header line 46: the header built from the cached token; the f-string
\* renders a token of None as the text "None"
BearerHeader(tok) ==
    [Authorization |-> <<"Bearer ">> \o (IF tok = <<>> THEN <<"None">> ELSE tok)]

\* refresh lines 67-78: the value of data["AccessToken"] is cached as it is, a
\* JSON null as None
cached_token(resp) == IF resp.access_token = <<JsonNull>> THEN <<>> ELSE resp.access_token

\* _post_with_retry line 149, get_header with a fresh cached token
GetHeaderCached ==
    /\ pc = "header"
    /\ ~needs_refresh
    /\ pc' = "post"
    /\ headers' = <<BearerHeader(token)>>
    /\ ev' = Event("get_header", level, <<>>, "None", FALSE, call, "none", <<>>, 0)
    /\ UNCHANGED <<otherVars, params, rowVars, sent, failed, unsent_valid, batch, at_end, level, fb,
                   attempt, attempted_refresh, retry_exc, authVars, now, call, accepted,
                   batch_lines, bulk_calls>>

\* _post_with_retry line 149, get_header refreshing first: the /auth exchange
\* resp either caches a token or raises, and the error leaves _post_with_retry
GetHeaderRefresh(resp) ==
    /\ pc = "header"
    /\ needs_refresh
    /\ UNCHANGED <<otherVars, params, rowVars, now, accepted>>
    /\ LET c == [call EXCEPT !.proactive_refreshes = @ + 1]
       IN  IF RefreshError(resp).cls = "None" THEN
                /\ token' = cached_token(resp)
                /\ issued_at' = now
                /\ headers' = <<BearerHeader(token')>>
                /\ pc' = "post"
                /\ call' = c
                /\ ev' = Event("get_header", level, Seen(resp), "None", FALSE, c, "none",
                               <<>>, 0)
                /\ UNCHANGED <<sent, failed, unsent_valid, batch, at_end, level, fb,
                               attempt, attempted_refresh, retry_exc, batch_lines,
                               bulk_calls>>
           ELSE
                /\ UNCHANGED authVars
                /\ Finish(RefreshError(resp), "get_header", Seen(resp), c)

Endpoint == IF level = "bulk" THEN "/banners/show/bulk" ELSE "/banners/show"

\* faulty variant, for sensitivity analysis: every 401 is answered by another refresh
refresh_loop_guard_never(refreshed) == FALSE

\* faulty variant, for sensitivity analysis: the guard forgets the refresh once a retry has happened
refresh_loop_guard_reset(refreshed) == refreshed /\ attempt = 0

\* line 157: a 401 after the call's reactive refresh is not refreshed again
refresh_loop_guard(refreshed) == refreshed

\* faulty variant, for sensitivity analysis: the budget check is off by one
retries_exhausted_late(n) == n > max_retries

\* line 175: the retry budget is used up
retries_exhausted(n) == n >= max_retries

\* faulty variant, for sensitivity analysis: every error but a 401 is taken for retryable
DispositionRetryAny(exc) ==
    IF exc.cls = "None" THEN "return"
    ELSE IF exc.cls = "Unauthorized"
         THEN IF refresh_loop_guard(attempted_refresh) THEN "raise" ELSE "refresh"
    ELSE IF retries_exhausted(attempt) THEN "raise" ELSE "backoff"

\* lines 156-171: how _post_with_retry treats the error of a data request:
\* "return", "refresh", "backoff" or "raise"
Disposition(exc) ==
    IF exc.cls = "None" THEN "return"
    ELSE IF exc.cls = "Unauthorized"
         THEN IF refresh_loop_guard(attempted_refresh) THEN "raise" ELSE "refresh"
    ELSE IF exc.cls \in Retryable
         THEN IF retries_exhausted(attempt) THEN "raise" ELSE "backoff"
    ELSE "raise"

\* lines 151-177: the data request and the handling of its outcome up to the
\* next blocking call
Post(resp) ==
    /\ pc = "post"
    /\ UNCHANGED <<otherVars, params, rowVars, authVars, now>>
    /\ accepted' = IF DataError(resp, Endpoint).cls = "None"
                   THEN accepted + (IF level = "bulk" THEN Len(batch) ELSE 1)
                   ELSE accepted
    /\ LET exc == DataError(resp, Endpoint)
           c == [call EXCEPT !.data_requests = @ + 1,
                             !.retryable_failures =
                                 IF exc.cls \in Retryable THEN @ + 1 ELSE @,
                             !.retryable_after_refresh =
                                 IF exc.cls \in Retryable /\ call.reactive_refreshes > 0
                                 THEN @ + 1 ELSE @]
       IN  IF Disposition(exc) \in {"return", "raise"} THEN Finish(exc, "post", Seen(resp), c)
           ELSE
                /\ pc' = IF Disposition(exc) = "refresh" THEN "on_unauthorized" ELSE "sleep"
                /\ retry_exc' = IF Disposition(exc) = "backoff" THEN exc ELSE retry_exc
                /\ call' = c
                /\ ev' = [Event("post", level, Seen(resp), "None", FALSE, c, "none", <<>>, 0)
                             EXCEPT !.authorization = headers]
                /\ UNCHANGED <<sent, failed, unsent_valid, batch, at_end, level, fb,
                               attempt, attempted_refresh, headers, batch_lines,
                               bulk_calls>>

\* faulty variant, for sensitivity analysis: the request is repeated with the
\* headers built before the refresh
continue_at_post == "post"

\* line 163: continue, back to the top of the loop (get_header, line 149)
continue_at == "header"

\* faulty variant, for sensitivity analysis: the refresh starts the retry
\* count afresh
attempt_after_refresh_reset(n) == 0

\* lines 156-163: the 401 branch leaves attempt as it is
attempt_after_refresh(n) == n

\* lines 161-163: the reactive refresh; its failure leaves _post_with_retry
OnUnauthorized(resp) ==
    /\ pc = "on_unauthorized"
    /\ UNCHANGED <<otherVars, params, rowVars, now, accepted>>
    /\ LET c == [call EXCEPT !.reactive_refreshes = @ + 1]
       IN  IF RefreshError(resp).cls = "None" THEN
                /\ token' = cached_token(resp)
                /\ issued_at' = now
                /\ attempted_refresh' = TRUE
                /\ attempt' = attempt_after_refresh(attempt)
                /\ pc' = continue_at
                /\ call' = c
                /\ ev' = Event("on_unauthorized", level, Seen(resp), "None", FALSE, c,
                               "none", <<>>, 0)
                /\ UNCHANGED <<sent, failed, unsent_valid, batch, at_end, level, fb,
                               retry_exc, headers, batch_lines, bulk_calls>>
           ELSE
                /\ UNCHANGED authVars
                /\ Finish(RefreshError(resp), "on_unauthorized", Seen(resp), c)

\* lines 178-187: the backoff sleep, d ticks long, then the next attempt
Sleep(d) ==
    /\ pc = "sleep"
    /\ now' = Min(now + d, MaxTime)
    /\ attempt' = attempt + 1
    /\ pc' = "header"
    /\ call' = [call EXCEPT !.sleeps = @ + 1]
    /\ ev' = Event("sleep", level, <<>>, "None", FALSE, [call EXCEPT !.sleeps = @ + 1],
                   "none", <<>>, 0)
    \* retry_exc is assigned again before it is next read
    /\ retry_exc' = NoError
    /\ UNCHANGED <<otherVars, params, rowVars, sent, failed, unsent_valid, batch, at_end, level, fb,
                   attempted_refresh, headers, authVars, accepted, batch_lines, bulk_calls>>

\* cli.py main, lines 112-128: the process exit code once run_pipeline has
\* returned its summary or an exception has left it; <<>> while it runs
exit_code ==
    IF pc = "crashed" THEN <<2>>
    ELSE IF pc = "done" THEN (IF unsent_valid > 0 THEN <<1>> ELSE <<0>>)
    ELSE <<>>

Next ==
    \/ \E row \in DeliveryRows : NextRow(row)
    \/ EndOfRows
    \/ GetHeaderCached
    \/ \E resp \in AuthResponses : GetHeaderRefresh(resp)
    \/ \E resp \in DataResponses : Post(resp)
    \/ \E resp \in AuthResponses : OnUnauthorized(resp)
    \/ \E d \in 0..MaxTime : Sleep(d)

Spec == Init /\ [][Next]_vars

\* =========================================================== rows and reload
\* run_pipeline over a Config with a backing file that an external writer
\* replaces while the rows come in; ShowAds answers every bulk request 200 or
\* 503 and there is no retry budget

RowsInit ==
    \* the API's cap is positive; 0 only as cli.py passes --batch-size 0 to both
    /\ batch_size \in 0..MaxBatchSize
    /\ max_batch \in 0..MaxBatchSize
    /\ max_batch = 0 => batch_size = 0
    /\ max_retries = 0
    /\ reload_every_rows \in 0..MaxRows
    /\ RunLocals
    /\ pc = "rows"
    /\ attempt = 0 /\ retry_exc = NoError
    /\ NoBackoff /\ NoPure
    /\ classified = <<>>
    \* a Config constructed over the file as it was then
    /\ env = [MIN_AGE |-> <<>>, MAX_AGE |-> <<>>]
    /\ cli_min = <<>> /\ cli_max = <<>>
    /\ file_path = <<"config.json">>
    /\ \/ file_content = File("missing", <<>>, <<>>) /\ file_mtime = <<>>
       \/ file_content = File("object", <<IntVal(25)>>, <<IntVal(35)>>) /\ file_mtime = <<1>>
    \* check_interval_s = 0: every poll looks at the file
    /\ interval = 0
    /\ next_check = 0 /\ monotonic = 0
    /\ cfg_file_mtime = file_mtime
    /\ cfg_age = [min_age |-> merged("min_age", DEFAULT_MIN_AGE),
                  max_age |-> merged("max_age", DEFAULT_MAX_AGE)]
    /\ cfg_pc = "ready"
    /\ cfg_ev = ConfigEvent("init", "None", "None", FALSE)
    \* line 90: age_cfg = cfg.age()
    /\ age_cfg = cfg_age

\* the modification time a file written now gets: later than the last one
next_mtime == IF file_mtime = <<>> THEN 1 ELSE file_mtime[1] + 1

\* what the writer puts in the file: other bounds, bounds out of order, JSON
\* that is not an object
RowsFileSamples ==
    { File("object", <<IntVal(25)>>, <<IntVal(35)>>),
      File("object", <<IntVal(40)>>, <<IntVal(30)>>),
      File("value", <<>>, <<>>) }

\* the file is read by the poll at a row only, so the writer needs to act
\* between rows only
NextRows ==
    \/ \E row \in DOMAIN SampleRows : NextRow(row)
    \/ EndOfRows
    \/ GetHeaderCached
    \/ GetHeaderRefresh(Response(200, <<"T1">>))
    \/ \E st \in {200, 503} : Post(Response(st, <<>>))
    \/ /\ pc = "rows"
       /\ next_mtime <= MaxMtime
       /\ \E content \in RowsFileSamples : WriteFile(content, next_mtime)

SpecRows == RowsInit /\ [][NextRows]_vars

\* ========================================================= one send_bulk
\* The final flush of a run whose rows all stayed in the buffer: send_bulk is
\* called once, with 1..MaxBatchSize items and no token cached yet; ShowAds
\* answers as in Spec, and /auth also with an AccessToken of null

NullTokenResponse == Response(200, <<JsonNull>>)

CallInit ==
    /\ batch_size = MaxBatchSize + 1 /\ max_batch = MaxBatchSize + 1
    /\ max_retries \in 0..MaxRetriesBound
    /\ reload_every_rows = DEFAULT_RELOAD_EVERY_ROWS
    /\ \E n \in 1..MaxBatchSize :
          /\ processed = n /\ valid = n /\ yielded = n
          \* the valid sample rows 1 and 2 in turn
          /\ batch = [i \in 1..n |-> Item(((i - 1) % 2) + 1)]
          /\ batch_lines = [i \in 1..n |-> i]
          /\ bulk_calls = <<[i \in 1..n |-> i]>>
    /\ invalid = 0 /\ reason_counts = <<>>
    /\ sent = 0 /\ failed = 0 /\ unsent_valid = 0
    /\ age_cfg = [min_age |-> DEFAULT_MIN_AGE, max_age |-> DEFAULT_MAX_AGE]
    /\ at_end = TRUE
    /\ level = "bulk" /\ fb = NoFallback
    /\ pc = "header"
    /\ attempt = 0 /\ attempted_refresh = FALSE /\ retry_exc = NoError /\ headers = <<>>
    /\ token = <<>> /\ issued_at = 0 /\ now = 0
    /\ call = NoCall
    /\ ev = PlainEvent("end")
    /\ accepted = 0
    /\ NoBackoff /\ NoPure /\ DefaultConfig
    /\ classified = <<>>

NextCall ==
    \/ GetHeaderCached
    \/ \E resp \in AuthResponses \cup {NullTokenResponse} : GetHeaderRefresh(resp)
    \/ \E resp \in DataResponses : Post(resp)
    \/ \E resp \in AuthResponses \cup {NullTokenResponse} : OnUnauthorized(resp)
    \/ \E d \in 0..MaxTime : Sleep(d)

SpecCall == CallInit /\ [][NextCall]_vars

\* every request, refresh and sleep returns
SpecCallLive == SpecCall /\ WF_vars(NextCall)

\* =============================================================== backoff
\* client.py: the delay before a retry

\* delays are counted in units of 1/DelayScale second, which makes the jitter
\* of every whole-second delay a whole number
DelayScale == 10 * JitterSteps

\* faulty variant, for sensitivity analysis: the hint is taken as it is
compute_backoff_hint_uncapped(att, retry_after_s, k) ==
    IF retry_after_s # <<>> THEN retry_after_s[1] * DelayScale
    ELSE LET delay == Min(backoff_base_s * (2 ^ att), backoff_cap_s)
             jitter == delay * (2 * k - JitterSteps)
         IN  Max(0, delay * DelayScale + jitter)

\* _compute_backoff with random.random() = k / JitterSteps:
\* jitter = delay * (0.1 * (random - 0.5) * 2) = delay * (2k - JitterSteps) / DelayScale
compute_backoff(att, retry_after_s, k) ==
    IF retry_after_s # <<>> THEN Min(retry_after_s[1], backoff_cap_s) * DelayScale
    ELSE LET delay == Min(backoff_base_s * (2 ^ att), backoff_cap_s)
             jitter == delay * (2 * k - JitterSteps)
         IN  Max(0, delay * DelayScale + jitter)

\* Retry-After headers tried: none, seconds, text that is neither seconds nor
\* a date, a date ahead and a date behind
RetryAfterSamples ==
    { <<>>, <<StrVal(<<"0">>)>>, <<StrVal(<<" ", "2">>)>>, <<StrVal(<<"5">>)>>,
      <<StrVal(<<"s", "o", "o", "n">>)>>, <<HttpDate(1)>>, <<HttpDate(0 - 3)>> }

\* exchanges that fail retryably
RetryableResponses ==
    {[Response(st, <<>>) EXCEPT !.retry_after = h] :
        st \in {429, 503}, h \in RetryAfterSamples}
    \cup {TransportFailure}

BackoffInit ==
    /\ NoRun /\ NoConfig /\ NoPure /\ classified = <<>>
    /\ max_retries \in 0..MaxBackoffRetries
    /\ attempt = 0 /\ retry_exc = NoError
    /\ pc = "retrying"
    /\ backoff_base_s \in 0..MaxBackoff
    /\ backoff_cap_s \in 0..MaxBackoff
    /\ sleep_s = <<>>

\* _post_with_retry lines 165-187 for a request that failed retryably: raise
\* when the budget is used up, else sleep the computed delay and count the retry
RetryWithBackoff(resp, k) ==
    /\ pc = "retrying"
    /\ retry_exc' = DataError(resp, "/banners/show")
    /\ IF retries_exhausted(attempt)
       THEN /\ pc' = "raised"
            /\ UNCHANGED <<attempt, sleep_s>>
       ELSE /\ sleep_s' = <<compute_backoff(attempt,
                                            DataError(resp, "/banners/show").retry_after_s, k)>>
            /\ attempt' = attempt + 1
            /\ pc' = "retrying"
    /\ UNCHANGED <<runVars, max_retries, backoff_base_s, backoff_cap_s, classified, pureVars,
                   configVars>>

NextBackoff ==
    \E resp \in RetryableResponses : \E k \in 0..(JitterSteps - 1) : RetryWithBackoff(resp, k)

SpecBackoff == BackoffInit /\ [][NextBackoff]_vars

\* ======================================================== error taxonomy
\* errors.py: the classification of every exchange

StatusCodes == 0..MaxStatus

\* a response object without a status_code attribute
Statusless == [Response(0, <<>>) EXCEPT !.has_status = FALSE]

Exchanges == {Response(st, <<>>) : st \in StatusCodes} \cup {Statusless, TransportFailure}

TaxonomyInit ==
    /\ NoRun /\ NoConfig /\ NoBackoff /\ NoPure
    /\ max_retries \in 0..MaxRetriesBound
    /\ attempt = 0 /\ retry_exc = NoError
    /\ pc = "classify"
    /\ classified = <<>>

\* _post_with_retry lines 151-152 and 169-171: the exchange resp is classified
Classify(resp) ==
    /\ pc = "classify"
    /\ classified' = <<[transport |-> resp.transport, has_status |-> resp.has_status,
                        status_code |-> resp.status_code,
                        exc |-> DataError(resp, "/banners/show")]>>
    /\ UNCHANGED <<runVars, retryVars, backoffVars, configVars, pureVars>>

NextTaxonomy == \E resp \in Exchanges : Classify(resp)

SpecTaxonomy == TaxonomyInit /\ [][NextTaxonomy]_vars

\* --------------------------------------------------------------------------
\* validator/age.py on its own

\* the raw values tried: ints, bools, a float or None (OtherVal), and text
AgeSamples ==
    {IntVal(n) : n \in {0 - 1, 17, 18, 30, 120, 121}}
    \cup {BoolVal(TRUE), BoolVal(FALSE), OtherVal}
    \cup {StrVal(s) : s \in {<<>>, <<" ", " ">>, <<" ", "4", "2", " ">>, <<"+", "2", "0">>,
                              <<"-", "2", "0">>, <<"0", "7">>, <<"5", ".", "0">>,
                              <<"a", "b", "c">>, <<"1", "7">>, <<"1", "8">>,
                              <<"1", "2", "0">>, <<"1", "2", "1">>, <<"3", "_", "0">>,
                              <<"+", " ", "2", "0">>, <<"3", "0", "_">>}}

\* the bounds tried
AgeBounds ==
    { [min_age |-> DEFAULT_MIN_AGE, max_age |-> DEFAULT_MAX_AGE],
      [min_age |-> 25, max_age |-> 35],
      [min_age |-> 0, max_age |-> 7] }

AgeInit ==
    /\ NoRun /\ NoRetryLoop /\ NoBackoff /\ NoConfig /\ classified = <<>>
    /\ gen = <<>>
    /\ \E a \in AgeSamples : \E b \in AgeBounds : age_call = <<[age |-> a, cfg |-> b, result |-> <<>>]>>

\* the call validate_age(age, cfg)
ValidateAge ==
    /\ age_call # <<>>
    /\ age_call[1].result = <<>>
    /\ age_call' = <<[age_call[1] EXCEPT !.result =
                          <<validate_age(age_call[1].age, age_call[1].cfg)>>]>>
    /\ UNCHANGED <<deliveryVars, configVars, gen>>

NextAge == ValidateAge

SpecAge == AgeInit /\ [][NextAge]_vars

\* --------------------------------------------------------------------------
\* batching.py on its own

\* the items 1, 2, ... n handed to batched
Items(n) == [i \in 1..n |-> i]

\* list(islice(it, size)) with the iterator at position pos: the next size
\* items, fewer when the input runs out
islice(items, pos, size) == SubSeq(items, pos + 1, Min(pos + size, Len(items)))

\* faulty variant, for sensitivity analysis: only a negative size is rejected
size_rejected_negative_only(size) == size < 0

\* batched line 13
size_rejected(size) == size <= 0

BatchedInit ==
    /\ NoRun /\ NoRetryLoop /\ NoBackoff /\ NoConfig /\ classified = <<>>
    /\ age_call = <<>>
    /\ \E n \in 0..MaxItems : \E size \in (0 - 1)..MaxChunk :
          gen = <<[items |-> Items(n), size |-> size, pos |-> 0, chunks |-> <<>>,
                   state |-> "created", raised |-> "None"]>>

\* next() on the generator batched(items, size) returned: the body runs from
\* where it stopped to the next yield, to its end, or to the raise of line 14
BatchedStep ==
    /\ gen # <<>>
    /\ gen[1].state \in {"created", "suspended"}
    /\ UNCHANGED <<deliveryVars, configVars, age_call>>
    /\ LET g == gen[1]
           chunk == islice(g.items, g.pos, g.size)
       IN  IF g.state = "created" /\ size_rejected(g.size) THEN
                gen' = <<[g EXCEPT !.state = "finished", !.raised = "ValueError"]>>
           ELSE IF chunk = <<>> THEN
                gen' = <<[g EXCEPT !.state = "finished"]>>
           ELSE
                gen' = <<[g EXCEPT !.state = "suspended", !.pos = g.pos + Len(chunk),
                                   !.chunks = Append(g.chunks, chunk)]>>

NextBatched == BatchedStep

SpecBatched == BatchedInit /\ [][NextBatched]_vars

\* ================================================================ claims

\* the last step made a data request that was answered with status st
PostAnswered(st) ==
    /\ ev.op = "post"
    /\ ev.resp # <<>>
    /\ ~ev.resp[1].transport
    /\ ev.resp[1].status_code = st

\* the class a retryably failed data request raises, by the taxonomy of the
\* specification: 429, any 5xx, a transport failure; "None" otherwise
RetryableClassOfLastPost ==
    IF ev.op # "post" \/ ev.resp = <<>> THEN "None"
    ELSE IF ev.resp[1].transport THEN "TransportError"
    ELSE IF ev.resp[1].status_code = 429 THEN "TooManyRequests"
    ELSE IF ev.resp[1].status_code \in 500..599 THEN "ServerError"
    ELSE "None"

\* ---- C1
\* C1: in one _post_with_retry call the reactive refresh on_unauthorized runs
\* at most once; a data request answered 401 after the call's reactive refresh
\* (retryable failures in between or not) ends the call with Unauthorized, so
\* no request, refresh or sleep of that call follows.
C1_AtMostOneReactiveRefresh ==
    /\ call.reactive_refreshes <= 1
    /\ ev.call.reactive_refreshes <= 1
    /\ (PostAnswered(401) /\ ev.call.reactive_refreshes >= 1) =>
            /\ ev.ended
            /\ ev.raised = "Unauthorized"
            /\ call = NoCall
            /\ pc \notin {"post", "on_unauthorized", "sleep"}

\* a call that was refreshed, then failed retryably and slept, then got 401
C1_Witness ==
    /\ PostAnswered(401)
    /\ ev.call.reactive_refreshes = 1
    /\ ev.call.retryable_after_refresh >= 1
    /\ ev.call.sleeps >= 1
    /\ ev.ended
    /\ ev.raised = "Unauthorized"

\* ---- C2
\* C2: send_single returns True on a 2xx answer and False only when the item's
\* own /banners/show request was answered 400; every other failure, a failed
\* token refresh of any kind included, leaves send_single as an error.
C2_FalseOnlyForItem400 ==
    /\ ev.single = "True" => (ev.op = "post" /\ ev.resp # <<>> /\ ~ev.resp[1].transport
                              /\ ev.resp[1].status_code \in 200..299)
    /\ ev.single = "False" => PostAnswered(400)
    /\ (ev.level = "single" /\ ev.ended /\ ev.op \in {"get_header", "on_unauthorized"})
            => ev.single = "raise"

\* ---- C3
\* C3: send_bulk enters the per-item fallback exactly when its bulk request was
\* answered 400; no bulk request follows in that send_bulk call, and the items
\* are handed to send_single one by one in batch order.
C3_FallbackIffBulk400 ==
    /\ (ev.level = "bulk" /\ ev.ended /\ level = "single") => PostAnswered(400)
    /\ (ev.level = "bulk" /\ PostAnswered(400)) => (level = "single" /\ fb.i = 1)
    /\ level = "single" =>
            /\ fb.i \in 1..Len(batch)
            /\ fb.sent + Len(fb.failed) = fb.i - 1
            /\ Endpoint = "/banners/show"

\* ---- C4
\* C4: every failure entry of a BatchResult returned by send_bulk, for a 400
\* item and for a retryable error with retries exhausted alike, carries the
\* placeholder "***redacted***" as VisitorCookie and never a raw cookie.
C4_FailuresRedacted ==
    LET entries == fb.failed \o (IF ev.result = <<>> THEN <<>> ELSE ev.result[1].failed)
    IN  \A k \in 1..Len(entries) :
            /\ entries[k].item.VisitorCookie = REDACTED
            /\ \A i \in DOMAIN SampleRows :
                   FieldChecks[i].cookie.ok =>
                       entries[k].item.VisitorCookie # FieldChecks[i].cookie.value[1]

\* a returned result with a 400 entry and an exhausted-retries entry
C4_Witness ==
    /\ ev.flush = "returned"
    /\ ev.result # <<>>
    /\ \E k \in 1..Len(ev.result[1].failed) : ev.result[1].failed[k].reason = "BAD_REQUEST"
    /\ \E k \in 1..Len(ev.result[1].failed) :
           ev.result[1].failed[k].reason \in {"TooManyRequests", "ServerError", "TransportError"}

\* ---- C5
\* C5: a retryably failed data request (429, 5xx, transport) is followed by one
\* sleep and a retry that adds one to the retry counter, or, when the counter
\* already equals max_retries, raises its typed error without sleeping; so a
\* call sleeps at most max_retries times and fails retryably at most
\* max_retries + 1 times, and with max_retries = 0 the first failure raises.
C5_RetryBudget ==
    /\ ev.call.sleeps <= max_retries
    /\ ev.call.retryable_failures <= max_retries + 1
    /\ call.sleeps <= max_retries
    /\ RetryableClassOfLastPost # "None" =>
            IF ev.call.retryable_failures = max_retries + 1
            THEN /\ ev.ended
                 /\ ev.raised = RetryableClassOfLastPost
                 /\ ev.call.sleeps = max_retries
            ELSE /\ ~ev.ended
                 /\ pc = "sleep"
                 /\ attempt = ev.call.retryable_failures - 1
    /\ ev.op = "sleep" =>
            /\ pc = "header"
            /\ attempt = ev.call.sleeps
            /\ ev.call.sleeps = ev.call.retryable_failures

\* the budget is used up after at least one sleep
C5_Witness ==
    /\ RetryableClassOfLastPost = "ServerError"
    /\ max_retries >= 1
    /\ ev.call.sleeps = max_retries
    /\ ev.ended
    /\ ev.raised = "ServerError"

\* ---- C6
\* C6: a data request answered 400 (BadRequest) or with a status that is not
\* 2xx, 400, 401, 429 or 5xx (UnexpectedStatus) is never retried: the call ends
\* at once with that error, whatever is left of the retry budget.
C6_NoRetryOfBadOrUnexpected ==
    /\ PostAnswered(400) => (ev.ended /\ ev.raised = "BadRequest" /\ call = NoCall)
    /\ (ev.op = "post" /\ ev.resp # <<>> /\ ~ev.resp[1].transport
        /\ ev.resp[1].status_code \notin (200..299) \cup {400, 401, 429} \cup (500..599))
            => (ev.ended /\ ev.raised = "UnexpectedStatus" /\ call = NoCall)

\* an unexpected status that ends a call which had budget left
C6_Witness ==
    /\ PostAnswered(404)
    /\ ev.call.sleeps < max_retries
    /\ ev.call.data_requests = 1
    /\ ev.raised = "UnexpectedStatus"

\* ---- C7
\* C7: when send_bulk raises a ShowAdsError during a flush, every item of that
\* batch is added to unsent_valid, sent and failed stay as they were, and the
\* run goes on: the loop takes the next row (or builds the summary at the end).
C7_RaisedFlushCountsUnsent ==
    [][ev'.flush = "raised" =>
            /\ ev'.raised \in {"BadRequest", "Unauthorized", "TooManyRequests", "ServerError",
                               "TransportError", "UnexpectedStatus"}
            /\ Len(batch) > 0
            /\ unsent_valid' = unsent_valid + Len(batch)
            /\ sent' = sent
            /\ failed' = failed
            /\ pc' = (IF at_end THEN "done" ELSE "rows")]_vars

\* after a flush that raised, a later batch was sent and accepted
C7_Witness ==
    /\ unsent_valid > 0
    /\ Len(bulk_calls) >= 2
    /\ ev.flush = "returned"
    /\ ev.result[1].sent > 0
    /\ sent > 0

\* ---- C8
\* C8: after every flush the batch buffer is empty, whether send_bulk returned,
\* raised a ShowAdsError or raised anything else; so no item (identified by its
\* line) is handed to send_bulk in more than one call.
C8_BufferClearedAfterFlush ==
    /\ ev.flush \in {"returned", "raised", "escaped"} => (batch = <<>> /\ batch_lines = <<>>)
    /\ pc \in {"rows", "done", "crashed"} =>
            \A k \in 1..Len(batch_lines) : \A c \in 1..Len(bulk_calls) :
                \A j \in 1..Len(bulk_calls[c]) : bulk_calls[c][j] # batch_lines[k]
    /\ \A c, d \in 1..Len(bulk_calls) : \A j \in 1..Len(bulk_calls[c]) :
            \A k \in 1..Len(bulk_calls[d]) :
                (bulk_calls[c][j] = bulk_calls[d][k]) => (c = d /\ j = k)

\* a flush raised, rows followed, and send_bulk was called again
C8_Witness ==
    /\ unsent_valid > 0
    /\ Len(bulk_calls) >= 2
    /\ pc = "header"
    /\ level = "bulk"

\* the sum of a Counter's counts
RECURSIVE CounterTotal(_)
CounterTotal(counter) ==
    IF DOMAIN counter = {} THEN 0
    ELSE LET k == CHOOSE x \in DOMAIN counter : TRUE
         IN  counter[k] + CounterTotal([x \in DOMAIN counter \ {k} |-> counter[x]])

\* ---- C9
\* C9: processed equals the number of rows the row source yielded and equals
\* valid + invalid, and the counts of invalid_reasons add up to invalid, in the
\* final summary and at every row boundary before it.
C9_RowAccounting ==
    /\ processed = yielded
    /\ processed = valid + invalid
    /\ CounterTotal(reason_counts) = invalid
    /\ \A code \in DOMAIN reason_counts : reason_counts[code] >= 1

\* a finished run with two invalid rows of the same reason code
C9_Witness ==
    /\ pc = "done"
    /\ invalid = 2
    /\ \E code \in DOMAIN reason_counts : reason_counts[code] = 2

\* ---- C10
\* C10: in the summary sent is the number of valid items the API accepted (2xx
\* on the bulk request or on the item's own request in the fallback), and sent,
\* failed and unsent_valid together account for the valid items, also when a
\* fallback is aborted part-way.
C10_SentIsAccepted ==
    pc = "done" => (sent = accepted /\ sent + failed + unsent_valid = valid)

C19_TotalClassification ==
    classified # <<>> =>
        LET c == classified[1]
            kind == c.exc.cls
            retried == Disposition(c.exc) = "backoff"
        IN  /\ kind \in {"None", "BadRequest", "Unauthorized", "TooManyRequests",
                          "ServerError", "UnexpectedStatus", "TransportError"}
            /\ IF c.transport THEN kind = "TransportError" /\ c.exc.status = <<>>
               ELSE IF ~c.has_status THEN kind = "UnexpectedStatus" /\ c.exc.status = <<>>
               ELSE /\ (kind = "None") <=> (c.status_code \in 200..299)
                    /\ (kind = "BadRequest") <=> (c.status_code = 400)
                    /\ (kind = "Unauthorized") <=> (c.status_code = 401)
                    /\ (kind = "TooManyRequests") <=> (c.status_code = 429)
                    /\ (kind = "ServerError") <=> (c.status_code \in 500..599)
                    /\ (kind = "UnexpectedStatus") <=>
                          (c.status_code \notin (200..299) \cup {400, 401, 429} \cup (500..599))
                    /\ kind # "None" => c.exc.status = <<c.status_code>>
            /\ retried => (c.transport \/ (c.has_status /\ c.status_code \in {429} \cup (500..599)))
            /\ (max_retries > 0 /\ (c.transport \/ (c.has_status
                                                     /\ c.status_code \in {429} \cup (500..599))))
                    => retried

\* the last status of the 5xx range is a ServerError and is retried
C19_Witness ==
    /\ classified # <<>>
    /\ classified[1].has_status /\ classified[1].status_code = 599
    /\ classified[1].exc.cls = "ServerError"
    /\ max_retries > 0

\* ---- C20
\* C20: send_bulk called with more items than the client's max batch size
\* raises ValueError before any header is obtained or request made: no HTTP
\* request, no refresh, no per-item fallback, and the token cache is untouched.
C20_OversizedBatchRejected ==
    [][(bulk_calls' # bulk_calls /\ Len(bulk_calls'[Len(bulk_calls')]) > max_batch) =>
            /\ ev'.raised = "ValueError"
            /\ ev'.resp = <<>>
            /\ ev'.call = NoCall /\ call' = NoCall
            /\ pc' = "crashed"
            /\ level' = "none" /\ fb' = NoFallback
            /\ headers' = <<>>
            /\ token' = token /\ issued_at' = issued_at
            /\ accepted' = accepted]_vars

\* a batch of one item met a client whose cap is zero
C20_Witness ==
    /\ pc = "crashed"
    /\ ev.raised = "ValueError"
    /\ ev.size > max_batch
    /\ Len(bulk_calls) = 1
    /\ token = <<>>

\* ---- backoff claims

\* the last retryable failure was retried after a sleep
Retried == pc = "retrying" /\ attempt > 0 /\ sleep_s # <<>>

\* ---- C14
\* C14: the delay _compute_backoff returns is never negative and never above
\* the configured cap, with a Retry-After hint and on the exponential path
\* with its jitter alike (base >= 0, cap >= 0, hint absent or >= 0).
C14_BackoffWithinCap ==
    sleep_s # <<>> => (0 <= sleep_s[1] /\ sleep_s[1] <= backoff_cap_s * DelayScale)

\* ---- C15
\* C15 as stated: when a retryable failure carries a Retry-After hint and the
\* call is retried, the sleep before the next attempt is at least the hint.
C15_SleepAtLeastHint ==
    (Retried /\ retry_exc.retry_after_s # <<>>)
        => sleep_s[1] >= retry_exc.retry_after_s[1] * DelayScale

\* C15 as amended: when a retryable failure carries a Retry-After hint and the
\* call is retried, the sleep before the next attempt is min(hint, backoff
\* cap): the hinted delay itself when the hint does not exceed the cap, the cap
\* otherwise.
C15_SleepIsHintUpToCap ==
    (Retried /\ retry_exc.retry_after_s # <<>>) =>
        /\ retry_exc.retry_after_s[1] <= backoff_cap_s
                => sleep_s[1] = retry_exc.retry_after_s[1] * DelayScale
        /\ retry_exc.retry_after_s[1] > backoff_cap_s
                => sleep_s[1] = backoff_cap_s * DelayScale

\* a 429 with Retry-After: 2 was retried after exactly two seconds
C15_Witness ==
    /\ Retried
    /\ retry_exc.cls = "TooManyRequests"
    /\ retry_exc.retry_after_s = <<2>>
    /\ backoff_cap_s = 3
    /\ sleep_s = <<2 * DelayScale>>

\* ---- Config claims

\* the value a source offers for a bound, <<>> when it offers none
OverrideOffers(key) == IF key = "min_age" THEN cli_min ELSE cli_max
FileOffers(key) ==
    IF file_path # <<>> /\ file_content.kind = "object" /\ file_content[key] # <<>>
       /\ file_content[key][1].type \in {"int", "bool"}
    THEN <<int_value(file_content[key])>>
    ELSE <<>>
EnvOffers(key) ==
    LET raw == env[IF key = "min_age" THEN "MIN_AGE" ELSE "MAX_AGE"]
    IN  IF raw # <<>> /\ ParseInt(raw[1]) # <<>> THEN ParseInt(raw[1]) ELSE <<>>

\* a bound by the precedence override > file > environment > default
ByPrecedence(key, default) ==
    IF OverrideOffers(key) # <<>> THEN OverrideOffers(key)[1]
    ELSE IF FileOffers(key) # <<>> THEN FileOffers(key)[1]
    ELSE IF EnvOffers(key) # <<>> THEN EnvOffers(key)[1]
    ELSE default

BoundsByPrecedence ==
    [min_age |-> ByPrecedence("min_age", 18), max_age |-> ByPrecedence("max_age", 120)]

ValidBounds(b) == 0 <= b.min_age /\ b.min_age <= b.max_age

\* the file, when one is configured, can be read as a JSON object (or not at all)
FileUsable == file_path = <<>> \/ file_content.kind # "value"

\* the current bounds were resolved from the sources as they are now: by a
\* construction that succeeded, or by a poll that found the file changed and
\* the merged bounds valid
JustResolved ==
    \/ cfg_ev.op = "construct" /\ cfg_pc = "ready"
    \/ /\ cfg_ev.op = "poll" /\ cfg_ev.changed /\ cfg_ev.returned # "raise"
       /\ ValidBounds(BoundsByPrecedence)

Env3040 == [MIN_AGE |-> << <<"3", "0">> >>, MAX_AGE |-> << <<"4", "0">> >>]
File2535 == File("object", <<IntVal(25)>>, <<IntVal(35)>>)

\* ---- C11
\* C11: each age bound is resolved on its own by the precedence explicit
\* override > config file > environment > default (18/120): environment 30/40,
\* file 25/35 and override 50/60 give 50/60; without the override 25/35;
\* without the file 30/40; with no source 18/120; and overriding one field
\* only leaves the other to the next source.
C11_BoundsByPrecedence ==
    JustResolved =>
        /\ cfg_age = BoundsByPrecedence
        /\ (env = Env3040 /\ file_path # <<>> /\ file_content = File2535
            /\ cli_min = <<50>> /\ cli_max = <<60>>)
                => cfg_age = [min_age |-> 50, max_age |-> 60]
        /\ (env = Env3040 /\ file_path # <<>> /\ file_content = File2535
            /\ cli_min = <<>> /\ cli_max = <<>>)
                => cfg_age = [min_age |-> 25, max_age |-> 35]
        /\ (env = Env3040 /\ file_path = <<>> /\ cli_min = <<>> /\ cli_max = <<>>)
                => cfg_age = [min_age |-> 30, max_age |-> 40]
        /\ (env = [MIN_AGE |-> <<>>, MAX_AGE |-> <<>>] /\ file_path = <<>>
            /\ cli_min = <<>> /\ cli_max = <<>>)
                => cfg_age = [min_age |-> 18, max_age |-> 120]

\* only max_age is overridden, the file offers only min_age, the environment
\* both: min_age comes from the file, max_age from the override
C11_Witness ==
    /\ cfg_ev.op = "construct" /\ cfg_pc = "ready"
    /\ env = Env3040
    /\ file_path # <<>> /\ file_content = File("object", <<IntVal(25)>>, <<>>)
    /\ cli_min = <<>> /\ cli_max = <<32>>
    /\ cfg_age = [min_age |-> 25, max_age |-> 32]

\* ---- C12
\* C12: a poll that finds the file changed while the merged bounds are invalid
\* (min_age > max_age, or a negative bound) rejects the reload: the bounds stay
\* as they were, reload_if_needed returns False, and nothing is raised.
C12_InvalidReloadRejected ==
    [][(/\ cfg_pc = "ready"
        /\ cfg_ev'.op = "poll"
        /\ monotonic >= next_check
        /\ get_mtime(file_path) # cfg_file_mtime
        /\ FileUsable
        /\ ~ValidBounds(BoundsByPrecedence))
            => /\ cfg_age' = cfg_age
               /\ cfg_ev'.returned = "False"
               /\ cfg_ev'.raised = "None"
               /\ cfg_pc' = "ready"]_vars

\* the file went from 25/35 to 40/30 and the poll kept 25/35
C12_Witness ==
    /\ cfg_ev.op = "poll" /\ cfg_ev.changed /\ cfg_ev.returned = "False"
    /\ file_content = File("object", <<IntVal(40)>>, <<IntVal(30)>>)
    /\ cli_min = <<>> /\ cli_max = <<>>
    /\ cfg_age = [min_age |-> 25, max_age |-> 35]

\* ---- C13
\* C13: a constructed Config always holds bounds with 0 <= min_age <= max_age:
\* the constructor raises when the merged initial bounds are invalid, and no
\* file change, environment change or poll installs invalid bounds.
C13_BoundsAlwaysValid ==
    /\ cfg_pc = "ready" => ValidBounds(cfg_age)
    /\ (cfg_ev.op = "construct" /\ FileUsable /\ ~ValidBounds(BoundsByPrecedence))
            => (cfg_pc = "failed" /\ cfg_ev.raised = "ValueError")
    /\ (cfg_ev.op = "construct" /\ FileUsable /\ ValidBounds(BoundsByPrecedence))
            => cfg_pc = "ready"

\* a poll met a file with a negative bound after the environment had changed
C13_Witness ==
    /\ cfg_pc = "ready"
    /\ cfg_ev.op = "poll" /\ cfg_ev.changed
    /\ file_content = File("object", <<IntVal(0 - 1)>>, <<IntVal(35)>>)
    /\ cli_min = <<>>
    /\ env # [MIN_AGE |-> <<>>, MAX_AGE |-> <<>>]
    /\ cfg_age.min_age >= 0

\* ---- C23

\* text made of an optional sign and decimal digits, nothing else
PlainDecimal(t) ==
    LET body == IF t # <<>> /\ t[1] \in {"+", "-"} THEN Tail(t) ELSE t
    IN  body # <<>> /\ \A i \in 1..Len(body) : body[i] \in Digits

\* the value of such text
PlainDecimalValue(t) ==
    IF t[1] = "-" THEN 0 - DecimalValue(Tail(t))
    ELSE IF t[1] = "+" THEN DecimalValue(Tail(t))
    ELSE DecimalValue(t)

\* the integer the raw value a stands for, when it is an integer or trimmed
\* optional-sign decimal integer text
StatedInteger(a) ==
    IF a.type = "int" THEN <<a.n>>
    ELSE IF a.type = "str" /\ PlainDecimal(Strip(a.s)) THEN <<PlainDecimalValue(Strip(a.s))>>
    ELSE <<>>

\* C23: validate_age accepts exactly the integers and the trimmed optional-sign
\* decimal integer texts whose value lies within the bounds passed in
\* (inclusive), with that value; blank text is EMPTY_AFTER_TRIM, any other
\* non-integer input (a bool included) is NOT_AN_INTEGER, an integer outside the
\* bounds is AGE_OUT_OF_RANGE; a result is (True, no code, value) or
\* (False, code, no value)
C23_AgeAcceptsExactlyPlainIntegers ==
    (age_call # <<>> /\ age_call[1].result # <<>>) =>
        LET a == age_call[1].age
            b == age_call[1].cfg
            r == age_call[1].result[1]
        IN  /\ \/ r.ok /\ r.code = "None" /\ Len(r.value) = 1
               \/ ~r.ok /\ r.code # "None" /\ r.value = <<>>
            /\ r.ok <=> /\ StatedInteger(a) # <<>>
                        /\ b.min_age <= StatedInteger(a)[1]
                        /\ StatedInteger(a)[1] <= b.max_age
            /\ r.ok => r.value = StatedInteger(a)
            /\ a.type = "bool" => r.code = "NOT_AN_INTEGER"
            /\ (a.type = "str" /\ Strip(a.s) = <<>>) => r.code = "EMPTY_AFTER_TRIM"
            /\ (a.type # "bool" /\ StatedInteger(a) = <<>> /\ ~(a.type = "str" /\ Strip(a.s) = <<>>))
                    => r.code = "NOT_AN_INTEGER"
            /\ (StatedInteger(a) # <<>> /\ ~r.ok) => r.code = "AGE_OUT_OF_RANGE"

\* ---- C24

RECURSIVE Concat(_)
Concat(chunks) == IF chunks = <<>> THEN <<>> ELSE Head(chunks) \o Concat(Tail(chunks))

\* ceiling of n / k for k > 0
CeilDiv(n, k) == (n + k - 1) \div k

\* C24: for a size k > 0, batched yields ceil(n / k) groups for n items, each
\* of exactly k items but for the last, which has 1 to k; the groups joined in
\* order are the input; no items, no group. For k <= 0 it raises before any
\* group is produced.
C24_BatchedPartition ==
    gen # <<>> =>
        LET g == gen[1]
            n == Len(g.items)
        IN  /\ g.size <= 0 =>
                /\ g.chunks = <<>>
                /\ g.state # "suspended"
                /\ g.state = "finished" => g.raised = "ValueError"
            /\ g.size > 0 =>
                /\ g.raised = "None"
                /\ Concat(g.chunks) = SubSeq(g.items, 1, g.pos)
                /\ \A i \in 1..Len(g.chunks) :
                      /\ 1 <= Len(g.chunks[i]) /\ Len(g.chunks[i]) <= g.size
                      /\ i < Len(g.chunks) => Len(g.chunks[i]) = g.size
                /\ g.state = "finished" =>
                      /\ Concat(g.chunks) = g.items
                      /\ Len(g.chunks) = CeilDiv(n, g.size)
                      /\ n = 0 => g.chunks = <<>>

\* five items were split by two into 2 + 2 + 1 and the generator finished
C24_Witness ==
    /\ gen # <<>>
    /\ gen[1].state = "finished"
    /\ gen[1].size = 2
    /\ gen[1].chunks = <<<<1, 2>>, <<3, 4>>, <<5>>>>

\* ---- C26

\* the file offers no bound: it is absent, unreadable or not JSON, JSON that is
\* not an object, or an object with no integer min_age / max_age
FileOffersNothing ==
    \/ file_path = <<>>
    \/ file_content.kind \in {"missing", "garbage", "value"}
    \/ file_content.kind = "object" /\ ~is_int(file_content.min_age)
                                    /\ ~is_int(file_content.max_age)

\* the bounds by default, environment and override alone
BoundsWithoutFile ==
    [min_age |-> IF cli_min # <<>> THEN cli_min[1]
                 ELSE IF EnvOffers("min_age") # <<>> THEN EnvOffers("min_age")[1]
                 ELSE 18,
     max_age |-> IF cli_max # <<>> THEN cli_max[1]
                 ELSE IF EnvOffers("max_age") # <<>> THEN EnvOffers("max_age")[1]
                 ELSE 120]

\* C26: while polling, a backing file that is missing or malformed is "no
\* override" and never fatal: reload_if_needed raises for no file content, and
\* a reload that finds such a file leaves the bounds that the defaults, the
\* environment and the explicit overrides give (when these are valid)
C26_MalformedFileNeverFatal ==
    cfg_ev.op = "poll" =>
        /\ cfg_ev.raised = "None"
        /\ (cfg_ev.changed /\ FileOffersNothing /\ ValidBounds(BoundsWithoutFile))
                => cfg_age = BoundsWithoutFile

\* ---- C27

\* C27: explicit overrides win across reloads: a bound given as an override
\* equals that override in the current snapshot at all times; with both bounds
\* overridden reload_if_needed never returns True and the snapshot never changes
C27_OverridesWinAcrossReloads ==
    /\ [](cfg_pc = "ready" =>
            /\ cli_min # <<>> => cfg_age.min_age = cli_min[1]
            /\ cli_max # <<>> => cfg_age.max_age = cli_max[1]
            /\ (cli_min # <<>> /\ cli_max # <<>> /\ cfg_ev.op = "poll")
                    => cfg_ev.returned # "True")
    /\ [][(cfg_pc = "ready" /\ cli_min # <<>> /\ cli_max # <<>>) => cfg_age' = cfg_age]_vars

\* with both bounds overridden (50, 60) a poll found the file changed to
\* 25..35 and reloaded, and the bounds are still 50..60
C27_Witness ==
    /\ cfg_pc = "ready"
    /\ cfg_ev.op = "poll" /\ cfg_ev.changed
    /\ file_path # <<>> /\ file_content = File2535
    /\ cli_min = <<50>> /\ cli_max = <<60>>
    /\ cfg_age = [min_age |-> 50, max_age |-> 60]

\* ---- C30

\* _post_with_retry is under way
InCall == pc \in {"header", "post", "on_unauthorized", "sleep"}

\* C30: a 401 answered by the reactive refresh consumes no retry budget: the
\* 401 and its refresh neither change the retry counter nor sleep, the counter
\* is the number of backoff sleeps of the call (the refresh does not reset it),
\* a call gives up on a retryable failure only at its (max_retries + 1)-th
\* such failure whether or not a 401 came in between, and a 2xx ends the call
\* in success
C30_RefreshOutsideRetryBudget ==
    /\ [][/\ (pc = "post" /\ pc' = "on_unauthorized") =>
                (attempt' = attempt /\ now' = now /\ call'.sleeps = call.sleeps)
          /\ (pc = "on_unauthorized" /\ ~ev'.ended) =>
                (attempt' = attempt /\ now' = now /\ call'.sleeps = call.sleeps
                 /\ pc' = "header")]_vars
    /\ [](InCall => attempt = call.sleeps)
    /\ []((ev.op = "post" /\ ev.ended /\ ev.raised \in Retryable)
              => ev.call.retryable_failures = max_retries + 1)
    /\ []((ev.op = "post" /\ ev.resp # <<>> /\ ~ev.resp[1].transport
           /\ ev.resp[1].status_code = 200) => (ev.ended /\ ev.raised = "None"))

\* a call met max_retries >= 1 retryable failures and one 401, the refresh
\* coming before the last failure, and then succeeded on a 2xx
C30_Witness ==
    /\ ev.op = "post" /\ ev.ended /\ ev.raised = "None"
    /\ max_retries >= 1
    /\ ev.call.retryable_failures = max_retries
    /\ ev.call.reactive_refreshes = 1
    /\ ev.call.retryable_after_refresh >= 1
    /\ ev.call.sleeps = max_retries

\* ---- C25

\* the run ended with a send_single call that made no data request and whose
\* item was nevertheless reported as a failed item: the last valid item was
\* never sent
LastItemNeverSent ==
    /\ ev.ended /\ ev.level = "single"
    /\ ev.call.data_requests = 0
    /\ ev.single = "False"

\* C25: the CLI exits 0 on a fully clean run (every valid item accepted),
\* nonzero when any valid item ended up unsent, and with a code distinct from
\* both when a fatal exception leaves the pipeline
C25_ExitCodes ==
    /\ pc \in {"done", "crashed"} <=> exit_code # <<>>
    /\ (pc = "done" /\ accepted = valid) => exit_code = <<0>>
    /\ (pc = "done" /\ unsent_valid > 0) => exit_code # <<0>>
    /\ (pc = "done" /\ LastItemNeverSent) => exit_code # <<0>>
    /\ pc = "done" => exit_code \in {<<0>>, <<1>>}
    /\ pc = "crashed" => exit_code \notin {<<0>>, <<1>>}

\* ---- C21

\* the step is an iteration of the for loop over the rows
RowStep == processed' = processed + 1

\* ... in which the row was checked (the poll before it raised nothing)
RowChecked == RowStep /\ ev'.raised \notin {"AttributeError", "ZeroDivisionError"}

\* each of the four validators applied to row i on its own, in the order
\* Name, Age, Cookie, Banner ID
FieldResults(i, cfg) ==
    <<FieldChecks[i].name, validate_age(SampleRows[i].Age, cfg), FieldChecks[i].cookie,
      FieldChecks[i].banner>>

\* the first of them that fails, 0 when none does
FirstFailing(i, cfg) ==
    IF \A k \in 1..4 : FieldResults(i, cfg)[k].ok THEN 0
    ELSE CHOOSE k \in 1..4 : /\ ~FieldResults(i, cfg)[k].ok
                             /\ \A j \in 1..(k - 1) : FieldResults(i, cfg)[j].ok

\* C21: a row is validated in the order Name, Age, Cookie, Banner ID and the
\* first failure decides: the row counts as invalid under the reason code of
\* the first failing field only (one count, whatever the later fields are) and
\* nothing is appended; an item is appended to the batch exactly when all four
\* validations succeed
C21_FirstFailingFieldDecides ==
    [][RowChecked =>
        LET i == ev'.row
            k == FirstFailing(i, age_cfg')
        IN  IF k = 0
            THEN /\ valid' = valid + 1 /\ invalid' = invalid
                 /\ reason_counts' = reason_counts
                 /\ \/ batch' = Append(batch, Item(i))
                    \/ ev'.flush = "escaped"
            ELSE /\ invalid' = invalid + 1 /\ valid' = valid
                 /\ batch' = batch /\ bulk_calls' = bulk_calls
                 /\ reason_counts' = CounterInc(reason_counts, FieldResults(i, age_cfg')[k].code)
                 /\ CounterTotal(reason_counts') = CounterTotal(reason_counts) + 1]_vars

\* the first row had all four fields invalid and was counted once, under the
\* name's reason code
C21_Witness ==
    /\ ev.op = "row" /\ ev.row = 5
    /\ processed = 1 /\ invalid = 1 /\ valid = 0
    /\ \A k \in 1..4 : ~FieldResults(5, age_cfg)[k].ok
    /\ DOMAIN reason_counts = {"NON_LETTER_CHAR"}
    /\ reason_counts["NON_LETTER_CHAR"] = 1
    /\ batch = <<>>

\* ---- C22

\* the row being counted is a reload checkpoint
Checkpoint == reload_every_rows # 0 /\ processed' % reload_every_rows = 0

\* b is an initial part of c
IsPrefix(b, c) == Len(b) <= Len(c) /\ SubSeq(c, 1, Len(b)) = b

\* C22: run_pipeline polls the Config only at a row whose count is a multiple
\* of reload_every_rows, before that row is validated; a snapshot the poll
\* reports as changed is the one this row and the later rows are checked
\* against, until the next change; nothing is applied retroactively: the counts
\* of the earlier rows stand, the items already buffered stay in the buffer,
\* and by the end of the run every valid item has been handed to send_bulk
C22_ReloadAtCheckpointsOnly ==
    /\ [][RowStep =>
            /\ ~Checkpoint =>
                  /\ UNCHANGED <<next_check, cfg_file_mtime, cfg_age, cfg_ev>>
                  /\ age_cfg' = age_cfg
            /\ Checkpoint =>
                  /\ cfg_ev'.op = "poll"
                  /\ file_mtime # cfg_file_mtime => cfg_file_mtime' = file_mtime
                  /\ cfg_ev'.returned = "True" => (age_cfg' = cfg_age' /\ age_cfg' # age_cfg)
                  /\ cfg_ev'.returned # "True" => age_cfg' = age_cfg
            /\ RowChecked =>
                  /\ valid' = valid + 1 <=> FirstFailing(ev'.row, age_cfg') = 0
                  /\ invalid' = invalid + 1 <=> FirstFailing(ev'.row, age_cfg') # 0
                  /\ valid' >= valid /\ invalid' >= invalid
                  /\ valid' + invalid' = valid + invalid + 1
                  /\ \A code \in DOMAIN reason_counts :
                        /\ code \in DOMAIN reason_counts'
                        /\ reason_counts'[code] >= reason_counts[code]
                  /\ sent' = sent /\ failed' = failed /\ unsent_valid' = unsent_valid
                  /\ IsPrefix(batch, batch') \/ ev'.flush = "escaped"]_vars
    /\ [][~RowStep => age_cfg' = age_cfg]_vars
    /\ [](pc = "done" => (batch = <<>> /\ Len(Concat(bulk_calls)) = valid))

\* the poll at the second row found the bounds changed to 25..35: that row
\* (age 20) is invalid under them, while the same row, accepted before under
\* 18..120, is still in the buffer
C22_Witness ==
    /\ ev.op = "row" /\ ev.row = 2
    /\ cfg_ev.op = "poll" /\ cfg_ev.returned = "True"
    /\ age_cfg = [min_age |-> 25, max_age |-> 35]
    /\ processed = 2 /\ valid = 1 /\ invalid = 1
    /\ batch = <<Item(2)>>
    /\ "AGE_OUT_OF_RANGE" \in DOMAIN reason_counts

\* ---- C28

\* line numbers of the valid rows buffered but not yet handed to send_bulk
PendingLines == IF level = "none" THEN batch_lines ELSE <<>>

\* line numbers of all valid rows so far, in the order of their hand-over
HandedOver == Concat(bulk_calls) \o PendingLines

\* C28: rows are validated and batched in stream order and one batch is
\* delivered at a time: a valid row's item goes to the end of the buffer, the
\* buffer handed to send_bulk is the valid rows since the last hand-over, so the
\* payloads of the successive send_bulk calls joined are the valid rows in
\* stream order; no row is validated while a send_bulk call is under way, and
\* a new call starts only when none is
C28_StreamOrderOneBatchAtATime ==
    /\ [][RowStep => (pc = "rows" /\ level = "none" /\ call = NoCall)]_vars
    /\ [][bulk_calls' # bulk_calls =>
            /\ pc = "rows" /\ level = "none"
            /\ bulk_calls' = Append(bulk_calls, Append(batch_lines, processed'))
               \/ (at_end' /\ bulk_calls' = Append(bulk_calls, batch_lines))]_vars
    /\ [][(RowChecked /\ valid' = valid + 1) =>
            \/ /\ batch' = Append(batch, Item(ev'.row))
               /\ batch_lines' = Append(batch_lines, processed')
            \/ ev'.flush = "escaped"]_vars
    /\ [](/\ Len(batch) = Len(batch_lines)
          /\ Len(HandedOver) = valid
          /\ \A k \in 1..Len(HandedOver) : 1 <= HandedOver[k] /\ HandedOver[k] <= processed
          /\ \A j, k \in 1..Len(HandedOver) : j < k => HandedOver[j] < HandedOver[k]
          /\ InCall => (level # "none" /\ bulk_calls # <<>>
                        /\ batch_lines = bulk_calls[Len(bulk_calls)]))

\* two rows went out as one batch, in the order they came in
C28_Witness ==
    /\ processed = 2 /\ valid = 2
    /\ bulk_calls = <<<<1, 2>>>>
    /\ ev.flush = "returned" /\ ev.size = 2
    /\ sent = 2

\* ---- C29

\* the smaller of the requested batch size and the client's cap
SmallerOfSizeAndCap == IF batch_size <= max_batch THEN batch_size ELSE max_batch

PollCall == cfg_pc = "ready" /\ cfg_ev'.op = "poll"

\* the call is held back by the rate limit
RateLimited == monotonic < next_check

\* the file's modification time is the recorded one
SameMtime == get_mtime(file_path) = cfg_file_mtime

HeldBack ==
    /\ cfg_ev'.returned = "False" /\ cfg_ev'.raised = "None"
    /\ ~cfg_ev'.checked /\ ~cfg_ev'.changed
    /\ cfg_age' = cfg_age
    /\ cfg_file_mtime' = cfg_file_mtime
    /\ next_check' = next_check

\* C35: a call of reload_if_needed made less than one interval (monotonic
\* clock) after the last call that got past the rate limit returns False
\* without looking at the file and changes neither the bounds nor the recorded
\* modification time nor the next-check time; every other call gets past the
\* rate limit and sets the next check one interval after its own time, whether
\* the file changed or not; the first call after construction gets past.
C35_RateLimit ==
    [][PollCall =>
        /\ (cfg_ev.last_pass # <<>> /\ monotonic < cfg_ev.last_pass[1] + interval) => HeldBack
        /\ (cfg_ev.last_pass # <<>> /\ monotonic >= cfg_ev.last_pass[1] + interval)
                => cfg_ev'.checked
        /\ cfg_ev.last_pass = <<>> => cfg_ev'.checked
        /\ cfg_ev'.checked =>
                /\ next_check' = monotonic + interval
                /\ cfg_ev'.last_pass = <<monotonic>>
        /\ RateLimited <=> ~cfg_ev'.checked]_vars

\* a poll was held back although the file had changed since the last poll
\* that got past
C35_Witness ==
    /\ cfg_ev.op = "poll" /\ ~cfg_ev.checked
    /\ cfg_ev.last_pass # <<>>
    /\ interval > 0
    /\ get_mtime(file_path) # cfg_file_mtime

\* ---- C39
\* C39: a reload rejected for invalid bounds still records the file's new
\* modification time; a later poll that finds the recorded time returns False
\* without merging the sources again; and once a reload was rejected, a poll
\* that gets past the rate limit and finds another modification time, with
\* merged bounds that are valid and differ from the snapshot, adopts them and
\* returns True.
C39_RejectedReloadDoesNotBlock ==
    [][PollCall =>
        /\ (~RateLimited /\ ~SameMtime /\ FileUsable /\ ~ValidBounds(BoundsByPrecedence)) =>
                /\ cfg_file_mtime' = get_mtime(file_path)
                /\ cfg_ev'.rejected_at = <<get_mtime(file_path)>>
                /\ cfg_ev'.returned = "False"
                /\ cfg_age' = cfg_age
        /\ (cfg_ev.rejected_at # <<>> /\ SameMtime) =>
                /\ cfg_ev'.returned = "False"
                /\ ~cfg_ev'.changed
                /\ cfg_age' = cfg_age
                /\ cfg_file_mtime' = cfg_file_mtime
        /\ (cfg_ev.rejected_at # <<>> /\ ~RateLimited /\ ~SameMtime /\ FileUsable
            /\ ValidBounds(BoundsByPrecedence) /\ BoundsByPrecedence # cfg_age) =>
                /\ cfg_ev'.returned = "True"
                /\ cfg_age' = BoundsByPrecedence
                /\ cfg_file_mtime' = get_mtime(file_path)]_vars

\* the file 40/30 written at time 1 was rejected, then 25/35 written at time 2
\* was adopted
C39_Witness ==
    /\ cfg_ev.op = "poll" /\ cfg_ev.returned = "True"
    /\ cfg_ev.rejected_at = << <<1>> >>
    /\ file_content = File2535 /\ file_mtime = <<2>>
    /\ cfg_file_mtime = <<2>>
    /\ cfg_age = [min_age |-> 25, max_age |-> 35]

\* ---- C38
\* C38: the bounds run_pipeline holds are at every moment, so whenever it
\* validates a row's age, the Config's current bounds: the Config's bounds
\* change only in a poll that returns True, the pipeline's copy changes only
\* in a row step whose poll returned True, and then to the Config's new bounds.
C38_SnapshotNeverStale ==
    /\ [](age_cfg = cfg_age)
    /\ [][cfg_age' # cfg_age =>
            /\ pc = "rows" /\ reload_due(processed')
            /\ cfg_ev'.op = "poll" /\ cfg_ev'.returned = "True" /\ cfg_ev'.changed]_vars
    /\ [][age_cfg' # age_cfg =>
            /\ ev'.op = "row"
            /\ reload_due(processed')
            /\ cfg_ev'.returned = "True"
            /\ age_cfg' = cfg_age']_vars

\* the poll at the first row adopted 25..35 and the row's age 19, within the
\* former 18..120, was rejected as out of range
C38_Witness ==
    /\ processed = 1
    /\ ev.op = "row" /\ ev.row = 4
    /\ cfg_ev.op = "poll" /\ cfg_ev.returned = "True"
    /\ age_cfg = [min_age |-> 25, max_age |-> 35]
    /\ reason_counts = [c \in {"AGE_OUT_OF_RANGE"} |-> 1]

\* ---- C37
\* C37: between row steps valid = sent + failed + unsent_valid + len(batch),
\* and in the summary, the buffer flushed, valid = sent + failed + unsent_valid,
\* whether the flushes returned or raised a ShowAdsError: a flush that
\* returned a result with sent + len(failed) = len(items) moves that many
\* items from the buffer to sent and failed, a flush that raised moves them to
\* unsent_valid; and processed, valid, invalid, sent, failed and unsent_valid
\* never decrease.
C37_ValidItemsConserved ==
    /\ [](pc = "rows" => valid = sent + failed + unsent_valid + Len(batch))
    /\ [](pc = "done" => (batch = <<>> /\ valid = sent + failed + unsent_valid))
    /\ [][(ev'.flush = "returned"
           /\ ev'.result[1].sent + Len(ev'.result[1].failed) = ev'.size) =>
                /\ sent' + failed' = sent + failed + Len(batch)
                /\ unsent_valid' = unsent_valid
                /\ batch' = <<>>]_vars
    /\ [][ev'.flush = "raised" =>
                /\ sent' = sent /\ failed' = failed
                /\ unsent_valid' = unsent_valid + Len(batch)
                /\ batch' = <<>>]_vars
    /\ [][/\ processed' >= processed /\ valid' >= valid /\ invalid' >= invalid
          /\ sent' >= sent /\ failed' >= failed /\ unsent_valid' >= unsent_valid]_vars

\* a summary after one flush that returned a failure entry and one that raised
C37_Witness ==
    /\ pc = "done"
    /\ valid = 2
    /\ sent = 0 /\ failed = 1 /\ unsent_valid = 1
    /\ Len(bulk_calls) = 2

\* ---- C31

\* a step in which the send_single call of the fallback's current item ends
ItemEnds == level = "single" /\ ev'.ended

\* the fallback's tally after a step: send_bulk's result when it returned in
\* the step, the loop's locals otherwise
TallyAfter ==
    IF ev'.flush = "returned" THEN ev'.result[1]
    ELSE [sent |-> fb'.sent, failed |-> fb'.failed]

\* the status attribute of the error an exchange raised (None for a transport failure)
StatusAttr(resp) == IF resp[1].transport THEN <<>> ELSE <<resp[1].status_code>>

\* the failure entry of the current item as the claim describes it
StatedEntry(reason, status) ==
    [item |-> [VisitorCookie |-> REDACTED, BannerId |-> batch[fb.i].BannerId],
     reason |-> reason, status |-> status]

\* every returned result accounts for all items; a 2xx bulk answer gives
\* sent = len(items), no failures and no per-item request; in the fallback
\* each item adds one to sent (send_single True), or a BAD_REQUEST / 400 entry
\* (send_single False), or an entry with the class name and status of the
\* retryable error send_single raised, and the loop goes on to the next item
FallbackTally ==
    /\ [](ev.flush = "returned" =>
            ev.result[1].sent + Len(ev.result[1].failed) = ev.size)
    /\ [][(level = "bulk" /\ ev'.op = "post" /\ ev'.resp # <<>> /\ ~ev'.resp[1].transport
           /\ ev'.resp[1].status_code \in 200..299) =>
                /\ ev'.flush = "returned"
                /\ ev'.result = <<[sent |-> Len(batch), failed |-> <<>>]>>
                /\ level' = "none"]_vars
    /\ [][ItemEnds =>
            /\ ev'.single = "True" =>
                    (TallyAfter.sent = fb.sent + 1 /\ TallyAfter.failed = fb.failed)
            /\ ev'.single = "False" =>
                    /\ TallyAfter.sent = fb.sent
                    /\ TallyAfter.failed = Append(fb.failed, StatedEntry("BAD_REQUEST", <<400>>))
            /\ (ev'.single = "raise" /\ ev'.raised \in Retryable) =>
                    /\ TallyAfter.sent = fb.sent
                    /\ TallyAfter.failed =
                           Append(fb.failed, StatedEntry(ev'.raised, StatusAttr(ev'.resp)))
            /\ (ev'.single = "raise" /\ ev'.raised \notin Retryable) <=> ev'.flush = "raised"
            /\ ev'.flush # "raised" =>
                    IF fb.i < Len(batch)
                    THEN level' = "single" /\ fb'.i = fb.i + 1 /\ pc' = "header"
                    ELSE ev'.flush = "returned"]_vars

C32_UnauthorizedEndsFallback ==
    [][(level = "single" /\ ev'.ended /\ ev'.raised = "Unauthorized") =>
            /\ ev'.single = "raise"
            /\ ev'.flush = "raised" /\ ev'.result = <<>>
            /\ level' = "none" /\ fb' = NoFallback
            /\ call' = NoCall
            /\ pc' = (IF at_end THEN "done" ELSE "rows")
            /\ bulk_calls' = bulk_calls
            /\ unsent_valid' = unsent_valid + Len(batch)
            /\ sent' = sent /\ failed' = failed
            /\ accepted' = accepted
            /\ (ev'.op = "post" => (token' = token /\ issued_at' = issued_at
                                     /\ ev'.call.reactive_refreshes = 1))
            /\ (ev'.op # "post" => (token' = token /\ ev'.resp # <<>>
                                     /\ ev'.resp[1].status_code = 401))]_vars

\* the first of two items got 401, a fresh token, and 401 again: the second
\* item was never sent
C32_Witness ==
    /\ ev.level = "single" /\ ev.item = 1 /\ ev.size = 2
    /\ ev.op = "post" /\ ev.raised = "Unauthorized"
    /\ ev.call.reactive_refreshes = 1
    /\ ev.flush = "raised"
    /\ accepted = 0 /\ unsent_valid = 2

\* ---- C33

\* the class of the error a token refresh raises for the /auth exchange r, by
\* the specification's account of refresh(); "None" when it succeeds
StatedRefreshFailure(r) ==
    IF r.transport THEN "TransportError"
    ELSE IF r.status_code \in 200..299
         THEN (IF r.access_token = <<>> THEN "UnexpectedStatus" ELSE "None")
    ELSE IF r.status_code = 400 THEN "BadRequest"
    ELSE IF r.status_code = 401 THEN "Unauthorized"
    ELSE IF r.status_code = 429 THEN "TooManyRequests"
    ELSE IF r.status_code \in 500..599 THEN "ServerError"
    ELSE "UnexpectedStatus"

\* a step in which the token refresh of a _post_with_retry call fails
RefreshFails ==
    /\ pc \in {"header", "on_unauthorized"}
    /\ ev'.op \in {"get_header", "on_unauthorized"}
    /\ ev'.resp # <<>>
    /\ StatedRefreshFailure(ev'.resp[1]) # "None"

\* C33: a token refresh that fails inside _post_with_retry, in get_header or
\* in on_unauthorized, ends the call in the same step with the refresh's own
\* error, also when that error is retryable and retry budget is left: no sleep,
\* no retry and no request of that call follows, and the token is kept.
C33_RefreshFailurePropagates ==
    [][RefreshFails =>
            /\ ev'.ended
            /\ ev'.raised = StatedRefreshFailure(ev'.resp[1])
            /\ ev'.level = level
            /\ ev'.call.sleeps = call.sleeps
            /\ ev'.call.data_requests = call.data_requests
            /\ ev'.call.retryable_failures = call.retryable_failures
            /\ call' = NoCall /\ attempt' = 0
            /\ pc' \notin {"post", "on_unauthorized", "sleep"}
            /\ pc' = "header" => (level' = "single" /\ (level = "bulk" \/ fb'.i = fb.i + 1))
            /\ token' = token /\ issued_at' = issued_at /\ now' = now]_vars

\* the reactive refresh of a bulk request met a network failure while one
\* retry was left: the call ended with TransportError, nothing slept
C33_Witness ==
    /\ ev.op = "on_unauthorized" /\ ev.level = "bulk"
    /\ ev.resp # <<>> /\ ev.resp[1].transport
    /\ ev.ended /\ ev.raised = "TransportError"
    /\ max_retries = 1 /\ ev.call.sleeps = 0 /\ ev.call.retryable_failures = 0
    /\ ev.call.data_requests = 1
    /\ ev.flush = "raised"

\* ---- C36
WithinBudget(c) ==
    /\ c.data_requests <= max_retries + 2
    /\ c.reactive_refreshes <= 1
    /\ c.sleeps <= max_retries

\* C36: given that each request, refresh and sleep returns, every
\* _post_with_retry call ends, returning or raising, after at most
\* max_retries + 2 data requests, one reactive refresh and max_retries sleeps;
\* send_bulk on n items makes the bulk call once and then at most one call per
\* item, in order, and comes to its end, so it ends after at most 1 + n calls.
C36_CallsTerminate ==
    /\ [](WithinBudget(call) /\ WithinBudget(ev.call))
    /\ [](level = "single" => fb.i \in 1..Len(batch))
    /\ [][/\ level = "single" => level' # "bulk"
          /\ level = "single" /\ level' = "single" =>
                IF ev'.ended THEN fb'.i = fb.i + 1 ELSE fb'.i = fb.i]_vars
    /\ <>(pc = "done" /\ level = "none")

\* the last item's call used its whole budget: every retry, and a refresh
\* after a 401, before send_bulk returned
C36_Witness ==
    /\ pc = "done"
    /\ max_retries >= 1
    /\ Len(bulk_calls[1]) >= 2
    /\ ev.ended /\ ev.level = "single"
    /\ ev.item = Len(bulk_calls[1])
    /\ ev.call.data_requests = max_retries + 2
    /\ ev.call.reactive_refreshes = 1
    /\ ev.call.sleeps = max_retries

\* ---- C40
\* the /auth answer get_header has just received carries no credential
NoCredentialIn(r) ==
    \/ r.transport
    \/ r.status_code \notin 200..299
    \/ r.access_token = <<>>
    \/ r.access_token = <<JsonNull>>

\* C40: when get_header has returned (the data request is next), the cached
\* token is a present value that a 2xx /auth answer had in AccessToken and the
\* header is "Bearer " followed by that token; a get_header whose /auth
\* exchange brought no credential raises and does not return.
C40_HeaderFromPresentToken ==
    /\ pc = "post" =>
            /\ token # <<>>
            /\ token[1] \in AccessTokens
            /\ headers = <<[Authorization |-> <<"Bearer ", token[1]>>]>>
    /\ ev.op = "get_header" /\ ev.resp # <<>> /\ NoCredentialIn(ev.resp[1]) =>
            /\ ev.ended
            /\ ev.raised # "None"

====
